---------------------------- MODULE Spec2Model ----------------------------
(***************************************************************************)
(* WireBot: the policy store (config.py), the WireGuard manager            *)
(* (wireguard_manager.py), the text helpers (utils.py) and the menu        *)
(* handlers that drive them (menu_handlers.py, main.py).                   *)
(*                                                                         *)
(* Strings are sequences of one-character strings, so that sanitising,     *)
(* splitting and validating are computed character by character.           *)
(* Python's None is "none" for a menu state, <<>> for a stored text and 0  *)
(* for a stored user id.                                                   *)
(***************************************************************************)
EXTENDS Integers, Sequences, FiniteSets, TLC

VARIABLES
    authorized_users,   \* config['authorized_users']: a list of user ids
    user_limits,        \* config['user_limits']: user id -> limits record
    limits,             \* config['limits']: the global default limits
    config_file,        \* wirebot_config.json as last written
    wg_conf_exists,     \* os.path.exists(wg_conf)
    script_exists,      \* os.path.exists(script_path)
    peers,              \* the peer names of wg0.conf, in file order
    conf_files,         \* the names NAME.conf that find_config_file locates
    sess,               \* context.user_data of every user
    inflight,           \* the manager calls entered and not yet returned
    last,               \* the manager request of the update handled last, if any
    created_by,         \* peer name -> the user whose request created it
    wg_conf_blocks,     \* the peer blocks of a wg0.conf text given to the parser
    status,             \* what get_server_status read from that text
    wg_conf_names,      \* the names of those blocks, where they matter
    wg_dump,            \* what `wg show wg0 dump` prints now: lines of fields
    listing,            \* the list_clients call in progress or returned last
    backup,             \* what backup_configs returned last, and its archive
    environ,            \* os.environ as load_dotenv left it: AUTHORIZED_USERS
    conversations       \* ConversationHandler._conversations: user -> state

storeVars == <<authorized_users, user_limits, limits, config_file>>
hostVars == <<environ, conversations>>
policyVars == <<storeVars, hostVars>>
parseVars == <<wg_conf_blocks, status>>
liveVars == <<wg_conf_names, wg_dump, listing, backup>>
wgVars == <<wg_conf_exists, script_exists, peers, conf_files, parseVars, liveVars>>
runVars == <<sess, inflight, last, created_by>>
vars == <<authorized_users, user_limits, limits, config_file, wg_conf_exists,
          script_exists, peers, conf_files, sess, inflight, last, created_by,
          wg_conf_blocks, status, wg_conf_names, wg_dump, listing, backup,
          environ, conversations>>

-----------------------------------------------------------------------------
(* Bounds of the model *)

\* How many distinct well-formed client names the users type.
NumNames == 2

\* How many peer blocks the wg0.conf texts given to the parser have at most.
MaxBlocks == 3

-----------------------------------------------------------------------------
(* Users *)

\* OWNER_ID of the environment.
OWNER_ID == 1

Users == {1, 2, 3}

-----------------------------------------------------------------------------
(* Text helpers: utils.py *)

Str8888 == <<"8", ".", "8", ".", "8", ".", "8">>
Str8844 == <<"8", ".", "8", ".", "4", ".", "4">>
DefaultDns == Str8888 \o <<",">> \o Str8844

Whitespace == {" ", "\t", "\n", "\r"}

Lowercase == {"a", "b", "c", "d", "e", "f", "g", "h", "i", "j", "k", "l", "m",
              "n", "o", "p", "q", "r", "s", "t", "u", "v", "w", "x", "y", "z"}
Uppercase == {"A", "B", "C", "D", "E", "F", "G", "H", "I", "J", "K", "L", "M",
              "N", "O", "P", "Q", "R", "S", "T", "U", "V", "W", "X", "Y", "Z"}
Digits == {"0", "1", "2", "3", "4", "5", "6", "7", "8", "9"}

\* str.strip()
RECURSIVE Strip(_)
Strip(s) ==
    IF s = <<>> THEN s
    ELSE IF Head(s) \in Whitespace THEN Strip(Tail(s))
    ELSE IF s[Len(s)] \in Whitespace THEN Strip(SubSeq(s, 1, Len(s) - 1))
    ELSE s

\* str.split(c)
RECURSIVE Split(_, _)
Split(s, c) ==
    IF \A i \in 1..Len(s) : s[i] # c THEN <<s>>
    ELSE LET k == CHOOSE i \in 1..Len(s) :
                      s[i] = c /\ \A j \in 1..(i - 1) : s[j] # c
         IN  <<SubSeq(s, 1, k - 1)>> \o Split(SubSeq(s, k + 1, Len(s)), c)

LowerChar(c) ==
    CASE c = "D" -> "d" [] c = "E" -> "e" [] c = "F" -> "f" [] c = "A" -> "a"
      [] c = "U" -> "u" [] c = "L" -> "l" [] c = "T" -> "t" [] OTHER -> c

\* str.lower(), on the letters the inputs of the model use
Lower(s) == [i \in 1..Len(s) |-> LowerChar(s[i])]

\* The length sanitize_client_name cuts a name to.
NameLimit == 15

\* A sanitizer that replaces the characters and does not cut the name.
sanitize_client_name_uncut(name) ==
    [i \in 1..Len(name) |->
        IF name[i] \in Digits \cup Lowercase \cup Uppercase \cup {"_", "-"}
        THEN name[i] ELSE "_"]

\* re.sub(r'[^0-9a-zA-Z_-]', '_', name)[:15]
sanitize_client_name(name) ==
    LET sanitized == [i \in 1..Len(name) |->
                         IF name[i] \in Digits \cup Lowercase \cup Uppercase \cup {"_", "-"}
                         THEN name[i] ELSE "_"]
    IN  SubSeq(sanitized, 1, IF Len(name) < NameLimit THEN Len(name) ELSE NameLimit)

\* One alternative of the octet group:
\* [0-9] | [1-9][0-9] | 1[0-9]{2} | 2[0-4][0-9] | 25[0-5]
IsOctet(p) ==
    \/ Len(p) = 1 /\ p[1] \in Digits
    \/ Len(p) = 2 /\ p[1] \in Digits \ {"0"} /\ p[2] \in Digits
    \/ Len(p) = 3 /\ p[1] = "1" /\ p[2] \in Digits /\ p[3] \in Digits
    \/ Len(p) = 3 /\ p[1] = "2" /\ p[2] \in {"0", "1", "2", "3", "4"} /\ p[3] \in Digits
    \/ Len(p) = 3 /\ p[1] = "2" /\ p[2] = "5" /\ p[3] \in {"0", "1", "2", "3", "4", "5"}

\* The pattern between ^ and $: four octets separated by dots.
MatchesIPv4(ip) ==
    LET parts == Split(ip, ".")
    IN  Len(parts) = 4 /\ \A i \in 1..4 : IsOctet(parts[i])

\* A check that only counts the dot-separated parts.
validate_ip_address_parts(ip) == Len(Split(ip, ".")) = 4

\* bool(re.match(pattern, ip)); $ also matches before one trailing newline.
validate_ip_address(ip) ==
    \/ MatchesIPv4(ip)
    \/ ip # <<>> /\ ip[Len(ip)] = "\n" /\ MatchesIPv4(SubSeq(ip, 1, Len(ip) - 1))

\* validate_dns_servers: empty entries are skipped, the others validated.
validate_dns_servers(dns_string) ==
    IF dns_string = <<>> \/ Strip(dns_string) = <<>> THEN FALSE
    ELSE LET entries == Split(dns_string, ",")
         IN  \A i \in 1..Len(entries) :
                 Strip(entries[i]) # <<>> => validate_ip_address(Strip(entries[i]))

-----------------------------------------------------------------------------
(* The policy store: config.py *)

Limits(mc, rl, cb, cv, cm) ==
    [max_clients |-> mc, rate_limit |-> rl, can_backup |-> cb,
     can_view_stats |-> cv, can_manage_clients |-> cm]

\* dict[k] = v and del dict[k]
Put(f, k, v) == [x \in DOMAIN f \cup {k} |-> IF x = k THEN v ELSE f[x]]
Drop(f, k) == [x \in DOMAIN f \ {k} |-> f[x]]

\* x in list
InList(x, l) == \E i \in 1..Len(l) : l[i] = x

\* list.remove(x): the first occurrence goes
ListRemove(l, x) ==
    LET k == CHOOSE i \in 1..Len(l) : l[i] = x /\ \A j \in 1..(i - 1) : l[j] # x
    IN  SubSeq(l, 1, k - 1) \o SubSeq(l, k + 1, Len(l))

\* The in-memory config and the file, as one value the methods transform.
Cfg == [au |-> authorized_users, ul |-> user_limits, file |-> config_file]

\* save_config: the whole in-memory config is written.
save_config(c) ==
    [c EXCEPT !.file = [exists |-> TRUE, authorized_users |-> c.au, user_limits |-> c.ul]]

\* An authorization check that every user passes.
is_authorized_anyone(user_id) == user_id \in Users

is_authorized(user_id) == InList(user_id, authorized_users)

\* An owner check that every authorized user passes.
is_owner_authorized(user_id) == InList(user_id, authorized_users)

is_owner(user_id) == user_id = OWNER_ID

add_authorized_user(c, user_id) ==
    IF ~InList(user_id, c.au)
    THEN save_config([c EXCEPT !.au = Append(c.au, user_id)])
    ELSE c

remove_user_limits(c, user_id) ==
    IF user_id \in DOMAIN c.ul
    THEN save_config([c EXCEPT !.ul = Drop(c.ul, user_id)])
    ELSE c

\* A guard of remove_authorized_user that does not look at the owner id.
CanRemoveAnyone(c, user_id) == InList(user_id, c.au)

\* The guard of remove_authorized_user, which is also its return value.
CanRemove(c, user_id) == InList(user_id, c.au) /\ user_id # OWNER_ID

remove_authorized_user(c, user_id) ==
    IF CanRemove(c, user_id)
    THEN remove_user_limits(save_config([c EXCEPT !.au = ListRemove(c.au, user_id)]), user_id)
    ELSE c

OwnerLimits == Limits(-1, -1, TRUE, TRUE, TRUE)

default_limits == Limits(limits.max_clients, limits.rate_limit, TRUE, TRUE, TRUE)

\* get_user_limits without the owner's fixed record.
LimitsInStored(ul, user_id) ==
    IF user_id \in DOMAIN ul THEN ul[user_id]
    ELSE default_limits

\* get_user_limits, reading the map ul
LimitsIn(ul, user_id) ==
    IF is_owner(user_id) THEN OwnerLimits
    ELSE IF user_id \in DOMAIN ul THEN ul[user_id]
    ELSE default_limits

get_user_limits(user_id) == LimitsIn(user_limits, user_id)

\* set_user_limits without the early return for the owner.
set_user_limits_unguarded(c, user_id, l) ==
    save_config([c EXCEPT !.ul = Put(c.ul, user_id, l)])

set_user_limits(c, user_id, l) ==
    IF is_owner(user_id) THEN c
    ELSE save_config([c EXCEPT !.ul = Put(c.ul, user_id, l)])

\* A value a limits record holds: a bool or an int.
PyBool(b) == [t |-> "bool", b |-> b, n |-> 0]
PyInt(n) == [t |-> "int", b |-> FALSE, n |-> n]

\* limits.get(key, True)
LimitsGet(l, key) ==
    CASE key = "max_clients" -> PyInt(l.max_clients)
      [] key = "rate_limit" -> PyInt(l.rate_limit)
      [] key = "can_backup" -> PyBool(l.can_backup)
      [] key = "can_view_stats" -> PyBool(l.can_view_stats)
      [] key = "can_manage_clients" -> PyBool(l.can_manage_clients)
      [] OTHER -> PyBool(TRUE)

\* action_map.get(action, action)
ActionKey(action) ==
    CASE action = "backup" -> "can_backup"
      [] action = "view_stats" -> "can_view_stats"
      [] action = "manage_clients" -> "can_manage_clients"
      [] OTHER -> action

can_user_perform_action(user_id, action) ==
    LimitsGet(get_user_limits(user_id), ActionKey(action))

\* Python's truth value of what can_user_perform_action returns
Truthy(v) == IF v.t = "bool" THEN v.b ELSE v.n # 0

\* get_user_client_count: the placeholder returns 0 for every user.
get_user_client_count(user_id) == 0

\* can_user_add_client with the count allowed to reach the limit.
can_user_add_client_upto(user_id) ==
    IF ~Truthy(can_user_perform_action(user_id, "manage_clients")) THEN FALSE
    ELSE IF get_user_limits(user_id).max_clients = -1 THEN TRUE
    ELSE get_user_client_count(user_id) <= get_user_limits(user_id).max_clients

can_user_add_client(user_id) ==
    IF ~Truthy(can_user_perform_action(user_id, "manage_clients")) THEN FALSE
    ELSE IF get_user_limits(user_id).max_clients = -1 THEN TRUE
    ELSE get_user_client_count(user_id) < get_user_limits(user_id).max_clients

\* The methods' results become the new state.
Commit(c) ==
    /\ authorized_users' = c.au
    /\ user_limits' = c.ul
    /\ config_file' = c.file
    /\ limits' = limits
    /\ UNCHANGED hostVars

-----------------------------------------------------------------------------
(* The WireGuard manager: wireguard_manager.py *)

is_installed == wg_conf_exists /\ script_exists

\* The names list_clients returns: none when wg0.conf does not exist.
ListClientNames == IF wg_conf_exists THEN peers ELSE <<>>

find_config_file(name) == name \in conf_files

\* add_client without the look at list_clients.
AddClientCheckNoLookup(client_name, dns_servers) ==
    LET sanitized_name == sanitize_client_name(client_name)
        dns_list == [i \in 1..Len(Split(dns_servers, ",")) |->
                        Strip(Split(dns_servers, ",")[i])]
    IN  IF sanitized_name = <<>> THEN "InvalidName"
        ELSE IF ~(\A i \in 1..Len(dns_list) : validate_ip_address(dns_list[i]))
        THEN "InvalidDns"
        ELSE "ok"

\* add_client up to the tool invocation: what it returns early with, or "ok".
AddClientCheck(client_name, dns_servers) ==
    LET sanitized_name == sanitize_client_name(client_name)
        dns_list == [i \in 1..Len(Split(dns_servers, ",")) |->
                        Strip(Split(dns_servers, ",")[i])]
    IN  IF sanitized_name = <<>> THEN "InvalidName"
        ELSE IF InList(sanitized_name, ListClientNames) THEN "AlreadyExists"
        ELSE IF ~(\A i \in 1..Len(dns_list) : validate_ip_address(dns_list[i]))
        THEN "InvalidDns"
        ELSE "ok"

\* A manager that ran the tool a second time after a failed invocation.
AddClientRetriesOnFailure(returncode, runs) == returncode # 0 /\ runs < 2

\* add_client after run_command returned: nothing runs the tool again.
AddClientRetries(returncode, runs) == FALSE

\* add_client from the return code on: the result it returns.
AddClientOutcome(returncode, config_found) ==
    IF returncode # 0 THEN "ScriptFailed"
    ELSE IF ~config_found THEN "ConfigNotFound"
    ELSE "Created"

\* remove_client without the look at list_clients.
RemoveClientCheckNoLookup(client_name) == "ok"

\* remove_client up to the tool invocation.
RemoveClientCheck(client_name) ==
    IF ~InList(client_name, ListClientNames) THEN "NotFound" ELSE "ok"

\* remove_client reporting success whatever the tool returned.
RemoveClientOutcomeAnyExit(returncode) == "Removed"

RemoveClientOutcome(returncode) ==
    IF returncode # 0 THEN "ScriptFailed" ELSE "Removed"

\* install_wireguard without the look at is_installed.
InstallCheckNone == "ok"

\* install_wireguard up to the tool invocation.
InstallCheck == IF is_installed THEN "AlreadyInstalled" ELSE "ok"

InstallOutcome(returncode) ==
    IF returncode # 0 THEN "ScriptFailed" ELSE "Installed"

\* The first component of the tuple a manager method returns.
Success(result) == result \in {"Created", "Removed", "Installed", "BackupCreated"}

\* A dispatcher that started handlers while a manager call is in progress.
NeverBlocked == FALSE

\* run_command: subprocess.run blocks the one thread that runs the handlers
\* until the child has exited or was killed at the timeout; no handler of
\* another update starts while a manager call is in progress.
Blocked == inflight # {}

\* What run_command returns: the exit code, or -1 after a timeout.
ReturnCodes == {0, 1, -1}

\* What the tool prints on stdout or stderr: nothing, or some text.
ToolOutputs == {<<>>, <<"e">>}

\* stderr of run_command after subprocess.TimeoutExpired
TimedOut == <<"Command timed out">>

\* What run_command returns with returncode: (stdout, stderr).
Captured(returncode) ==
    IF returncode = -1 THEN {[stdout |-> <<>>, stderr |-> TimedOut]}
    ELSE [stdout : ToolOutputs, stderr : ToolOutputs]

\* error_msg = stderr or stdout or "Unknown error occurred"
ErrorMessage(stdout, stderr) ==
    IF stderr # <<>> THEN stderr
    ELSE IF stdout # <<>> THEN stdout
    ELSE <<"Unknown error occurred">>

-----------------------------------------------------------------------------
(* Reading wg0.conf: list_clients and _get_server_config *)

\* The shapes of a peer block: complete, or without its [Peer] line, its
\* PublicKey line or its AllowedIPs line.
Shapes == {"ok", "no_peer", "no_key", "no_ips"}

\* One line of the text: its kind and the block it stands in (0: the server
\* section). The name, key and addresses of a block are told apart by the
\* block's number.
Line(kind, block) == [kind |-> kind, block |-> block]

\* The lines of block number b of the given shape:
\*   # BEGIN_PEER name / [Peer] / PublicKey = .. / PresharedKey = .. /
\*   AllowedIPs = .. / # END_PEER name
BlockLines(shape, b) ==
    <<Line("begin", b)>>
    \o (IF shape = "no_peer" THEN <<>> ELSE <<Line("peer", b)>>)
    \o (IF shape = "no_key" THEN <<>> ELSE <<Line("pubkey", b)>>)
    \o <<Line("psk", b)>>
    \o (IF shape = "no_ips" THEN <<>> ELSE <<Line("allowed", b)>>)
    \o <<Line("end", b)>>

RECURSIVE BlocksLines(_, _)
BlocksLines(blocks, b) ==
    IF b > Len(blocks) THEN <<>>
    ELSE BlockLines(blocks[b], b) \o BlocksLines(blocks, b + 1)

\* The text: the server section, then the blocks.
ConfLines(blocks) == <<Line("server", 0)>> \o BlocksLines(blocks, 1)

\* The lines j at which the name group (.+?) can end when it starts in line
\* i: "\n[Peer]\nPublicKey = " follows, and "AllowedIPs = " comes later.
NameEnds(lines, i) ==
    {j \in i..(Len(lines) - 2) :
        /\ lines[j + 1].kind = "peer"
        /\ lines[j + 2].kind = "pubkey"
        /\ \E k \in (j + 3)..Len(lines) : lines[k].kind = "allowed"}

\* A greedy name group (.+): the last line it can end at.
NameEndGreedy(lines, i) == CHOOSE j \in NameEnds(lines, i) : \A x \in NameEnds(lines, i) : x <= j

\* The lazy name group (.+?): the first line it can end at.
NameEnd(lines, i) == CHOOSE j \in NameEnds(lines, i) : \A x \in NameEnds(lines, i) : j <= x

\* .*?AllowedIPs = ([^\n]+): the first AllowedIPs line after the key.
AllowedLine(lines, j) ==
    CHOOSE k \in (j + 3)..Len(lines) :
        /\ lines[k].kind = "allowed"
        /\ \A x \in (j + 3)..(k - 1) : lines[x].kind # "allowed"

\* A search that resumes one line after the start of the last match.
ResumeAfterStart(i, k) == i + 1

\* re.findall resumes after the end of the last match.
ResumeAt(i, k) == k + 1

\* re.findall from line pos on: the groups (client_name, public_key,
\* allowed_ips) of every match; the name is kept as the lines it spans.
RECURSIVE FindAll(_, _)
FindAll(lines, pos) ==
    IF \A i \in pos..Len(lines) : lines[i].kind # "begin" THEN <<>>
    ELSE LET i == CHOOSE x \in pos..Len(lines) :
                      lines[x].kind = "begin"
                      /\ \A y \in pos..(x - 1) : lines[y].kind # "begin"
         IN  IF NameEnds(lines, i) = {}
             THEN FindAll(lines, i + 1)
             ELSE LET j == NameEnd(lines, i)
                      k == AllowedLine(lines, j)
                  IN  <<[name |-> SubSeq(lines, i, j),
                         public_key |-> lines[j + 2],
                         allowed_ips |-> lines[k]]>>
                      \o FindAll(lines, ResumeAt(i, k))

\* list_clients: name, public_key and allowed_ips of every match.
list_clients(blocks) == FindAll(ConfLines(blocks), 1)

\* _get_server_config: client_count = len(re.findall(r'# BEGIN_PEER', content))
client_count(blocks) ==
    Cardinality({i \in 1..Len(ConfLines(blocks)) : ConfLines(blocks)[i].kind = "begin"})

\* Nothing read yet.
NoStatus == [read |-> FALSE, clients |-> <<>>, client_count |-> 0]

\* The parser is examined on its own, under SpecParse; everywhere else the
\* names it returns are kept in peers.
InitParse ==
    /\ wg_conf_blocks = <<>>
    /\ status = NoStatus

\* The tool, or an edit by hand, appends a block to the text.
WriteBlock(shape) ==
    /\ Len(wg_conf_blocks) < MaxBlocks
    /\ wg_conf_blocks' = Append(wg_conf_blocks, shape)
    /\ status' = NoStatus
    /\ UNCHANGED <<policyVars, wg_conf_exists, script_exists, peers, conf_files, runVars,
                   liveVars>>

\* get_server_status: list_clients and _get_server_config read the text.
GetServerStatus ==
    /\ status' = [read |-> TRUE,
                  clients |-> list_clients(wg_conf_blocks),
                  client_count |-> client_count(wg_conf_blocks)]
    /\ UNCHANGED <<policyVars, wg_conf_exists, script_exists, peers, conf_files, runVars,
                   wg_conf_blocks, liveVars>>

-----------------------------------------------------------------------------
(* Ownership of peers, as the design describes it (ownerId) *)

\* The peers of the configuration whose creation user_id requested.
OwnedCount(user_id) ==
    Cardinality({n \in DOMAIN created_by :
                    created_by[n] = user_id /\ InList(n, ListClientNames)})

\* CanAddClient of the design, over the limits the store resolves.
CanAddClient(user_id) ==
    /\ get_user_limits(user_id).can_manage_clients
    /\ \/ get_user_limits(user_id).max_clients = -1
       \/ OwnedCount(user_id) < get_user_limits(user_id).max_clients

-----------------------------------------------------------------------------
(* Sessions and requests *)

\* No user is in a conversation of add_client_conv or add_user_conv.
NoConversations == [add_client_conv |-> [u \in Users |-> "END"],
                    add_user_conv |-> [u \in Users |-> "END"]]

EmptySess == [menu_state |-> "none", client_name |-> <<>>, dns_servers |-> <<>>,
              target_user_id |-> 0]

NoRequest == [op |-> "none", name |-> <<>>, arg |-> 0, phase |-> "idle",
              check |-> "none", runs |-> 0, rc |-> 0, result |-> "none",
              allowed |-> TRUE,
              raw |-> <<>>, dns |-> <<>>, installed |-> FALSE,
              stdout |-> <<>>, stderr |-> <<>>, message |-> <<>>]

\* A method of the policy store was called with user id arg and returned.
StoreCall(op, arg, result) ==
    [NoRequest EXCEPT !.op = op, !.arg = arg, !.phase = "done", !.result = result]

\* How a Python bool reads in a response.
BoolText(b) == IF b THEN "True" ELSE "False"

\* A manager method was called by user_id's handler and returned early;
\* allowed records what the design's quota check said of user_id then.
Refused(user_id, op, name, check) ==
    [NoRequest EXCEPT !.op = op, !.name = name, !.phase = "done",
                      !.check = check, !.result = check,
                      !.allowed = CanAddClient(user_id)]

\* A manager method was called and has started the tool.
Started(user_id, op, name) ==
    [NoRequest EXCEPT !.op = op, !.name = name, !.phase = "executing",
                      !.check = "ok", !.runs = 1,
                      !.allowed = CanAddClient(user_id)]

Call(user_id, op, name) == [user |-> user_id, op |-> op, name |-> name]

\* The inputs users type and the buttons they press.
NameLetters == <<"a", "b", "c", "d">>
ValidNames == {<<NameLetters[i]>> : i \in 1..NumNames}
RawNames == ValidNames \cup {<<" ">>}
DnsInputs == {Str8888, Str8888 \o <<",">>, <<"x">>, <<"D", "e", "f", "a", "u", "l", "t">>}

-----------------------------------------------------------------------------
(* Handlers of the add-client menu flow: menu_handlers.py *)

\* Any update whose handler changes nothing: a denied user, a text outside a
\* menu flow, a menu or Cancel button.
NoEffectUpdate(u) ==
    /\ ~Blocked
    /\ last' = NoRequest
    /\ UNCHANGED <<policyVars, wgVars, sess, inflight, created_by>>

\* callback client_add
CallbackClientAdd(u) ==
    /\ ~Blocked
    /\ is_authorized(u)
    /\ is_installed
    /\ sess' = [sess EXCEPT ![u].menu_state = "waiting_client_name"]
    /\ last' = NoRequest
    /\ UNCHANGED <<policyVars, wgVars, inflight, created_by>>

\* handle_menu_text_input -> handle_menu_client_name
MenuClientName(u, text) ==
    /\ ~Blocked
    /\ is_authorized(u)
    /\ sess[u].menu_state = "waiting_client_name"
    /\ LET sanitized_name == sanitize_client_name(Strip(text))
       IN  IF sanitized_name = <<>> \/ InList(sanitized_name, ListClientNames)
           THEN sess' = sess
           ELSE sess' = [sess EXCEPT ![u].client_name = sanitized_name,
                                     ![u].menu_state = "waiting_dns_servers"]
    /\ last' = NoRequest
    /\ UNCHANGED <<policyVars, wgVars, inflight, created_by>>

\* create_menu_client: add_client is called with the stored name; the
\* user data is cleared when the call has returned.
create_menu_client(u, dns_servers) ==
    LET client_name == sess[u].client_name
        check == AddClientCheck(client_name, dns_servers)
    IN  /\ IF check = "ok"
           THEN /\ inflight' = inflight \cup {Call(u, "add", sanitize_client_name(client_name))}
                /\ last' = Started(u, "add", sanitize_client_name(client_name))
                /\ sess' = [sess EXCEPT ![u].dns_servers = dns_servers]
           ELSE /\ inflight' = inflight
                /\ last' = Refused(u, "add", sanitize_client_name(client_name), check)
                /\ sess' = [sess EXCEPT ![u] = EmptySess]
        /\ UNCHANGED <<policyVars, wgVars, created_by>>

\* handle_menu_text_input -> handle_menu_dns_servers
MenuDnsServers(u, text) ==
    /\ ~Blocked
    /\ is_authorized(u)
    /\ sess[u].menu_state = "waiting_dns_servers"
    /\ IF Lower(Strip(text)) = <<"d", "e", "f", "a", "u", "l", "t">>
       THEN create_menu_client(u, DefaultDns)
       ELSE IF ~validate_dns_servers(Strip(text))
       THEN /\ last' = NoRequest
            /\ UNCHANGED <<policyVars, wgVars, sess, inflight, created_by>>
       ELSE create_menu_client(u, Strip(text))

\* callback menu_use_default_dns
CallbackUseDefaultDns(u) ==
    /\ ~Blocked
    /\ is_authorized(u)
    /\ sess[u].menu_state = "waiting_dns_servers"
    /\ create_menu_client(u, DefaultDns)

\* add_client from run_command's return on. The tool is opaque: with exit
\* code 0, or killed at the timeout, it may or may not have written the peer
\* and the profile file.
AddClientReturn ==
    \E c \in inflight, returncode \in ReturnCodes, added \in BOOLEAN, wrote \in BOOLEAN :
        /\ c.op = "add"
        /\ ~script_exists => returncode = 1
        /\ returncode = 1 => ~added /\ ~wrote
        /\ added => wg_conf_exists /\ ~InList(c.name, peers)
        /\ peers' = IF added THEN Append(peers, c.name) ELSE peers
        /\ conf_files' = IF wrote THEN conf_files \cup {c.name} ELSE conf_files
        /\ created_by' = IF added THEN Put(created_by, c.name, c.user) ELSE created_by
        /\ IF AddClientRetries(returncode, last.runs)
           THEN /\ last' = [last EXCEPT !.runs = @ + 1]
                /\ UNCHANGED <<inflight, sess>>
           ELSE /\ last' = [last EXCEPT !.phase = "done", !.rc = returncode,
                                        !.result = AddClientOutcome(returncode, c.name \in conf_files')]
                /\ inflight' = inflight \ {c}
                /\ sess' = [sess EXCEPT ![c.user] = EmptySess]
        /\ UNCHANGED <<policyVars, wg_conf_exists, script_exists, parseVars, liveVars>>

\* callback confirm_remove_NAME -> remove_client
CallbackConfirmRemove(u, client_name) ==
    /\ ~Blocked
    /\ is_authorized(u)
    /\ IF RemoveClientCheck(client_name) = "ok"
       THEN /\ inflight' = inflight \cup {Call(u, "remove", client_name)}
            /\ last' = Started(u, "remove", client_name)
       ELSE /\ inflight' = inflight
            /\ last' = Refused(u, "remove", client_name, RemoveClientCheck(client_name))
    /\ UNCHANGED <<policyVars, wgVars, sess, created_by>>

RemoveClientReturn ==
    \E c \in inflight, returncode \in ReturnCodes, removed \in BOOLEAN, unlinked \in BOOLEAN :
      \E out \in Captured(returncode) :
        /\ c.op = "remove"
        /\ ~script_exists => returncode = 1
        /\ returncode = 1 => ~removed /\ ~unlinked
        /\ peers' = IF removed THEN SelectSeq(peers, LAMBDA n : n # c.name) ELSE peers
        /\ conf_files' = IF unlinked THEN conf_files \ {c.name} ELSE conf_files
        /\ created_by' = IF removed THEN Drop(created_by, c.name) ELSE created_by
        /\ last' = [last EXCEPT !.phase = "done", !.rc = returncode,
                                !.result = RemoveClientOutcome(returncode),
                                !.stdout = IF returncode # 0 THEN out.stdout ELSE <<>>,
                                !.stderr = IF returncode # 0 THEN out.stderr ELSE <<>>,
                                !.message = IF returncode # 0
                                            THEN ErrorMessage(out.stdout, out.stderr)
                                            ELSE <<>>]
        /\ inflight' = inflight \ {c}
        /\ UNCHANGED <<policyVars, wg_conf_exists, script_exists, sess, parseVars,
                       liveVars>>

\* /install -> install_command -> install_wireguard
CmdInstall(u) ==
    /\ ~Blocked
    /\ is_owner(u)
    /\ ~is_installed
    /\ IF InstallCheck = "ok"
       THEN /\ inflight' = inflight \cup {Call(u, "install", <<>>)}
            /\ last' = Started(u, "install", <<>>)
       ELSE /\ inflight' = inflight
            /\ last' = Refused(u, "install", <<>>, InstallCheck)
    /\ UNCHANGED <<policyVars, wgVars, sess, created_by>>

InstallReturn ==
    \E c \in inflight, returncode \in ReturnCodes, written \in BOOLEAN :
        /\ c.op = "install"
        /\ ~script_exists => returncode = 1
        /\ returncode = 1 => ~written
        /\ wg_conf_exists' = (wg_conf_exists \/ written)
        /\ last' = [last EXCEPT !.phase = "done", !.rc = returncode,
                                !.result = InstallOutcome(returncode)]
        /\ inflight' = inflight \ {c}
        /\ UNCHANGED <<policyVars, script_exists, peers, conf_files, sess, created_by,
                       parseVars, liveVars>>

\* callback backup_create -> backup_configs: no tool is run.
CallbackBackupCreate(u) ==
    /\ ~Blocked
    /\ is_authorized(u)
    /\ inflight' = inflight \cup {Call(u, "backup", <<>>)}
    /\ last' = [Started(u, "backup", <<>>) EXCEPT !.runs = 0]
    /\ UNCHANGED <<policyVars, wgVars, sess, created_by>>

BackupReturn ==
    \E c \in inflight, written \in BOOLEAN :
        /\ c.op = "backup"
        /\ last' = [last EXCEPT !.phase = "done",
                                !.result = IF written THEN "BackupCreated" ELSE "BackupError"]
        /\ inflight' = inflight \ {c}
        /\ UNCHANGED <<policyVars, wgVars, sess, created_by>>

-----------------------------------------------------------------------------
(* Calls of the policy store and the owner's user-management handlers *)

DigitValue(c) ==
    CASE c = "0" -> 0 [] c = "1" -> 1 [] c = "2" -> 2 [] c = "3" -> 3 [] c = "4" -> 4
      [] c = "5" -> 5 [] c = "6" -> 6 [] c = "7" -> 7 [] c = "8" -> 8 [] OTHER -> 9

\* Whether int(text) returns rather than raises ValueError.
IsIntText(s) ==
    LET body == IF s # <<>> /\ s[1] \in {"-", "+"} THEN Tail(s) ELSE s
    IN  body # <<>> /\ \A i \in 1..Len(body) : body[i] \in Digits

RECURSIVE DecimalValue(_)
DecimalValue(body) ==
    IF body = <<>> THEN 0
    ELSE 10 * DecimalValue(SubSeq(body, 1, Len(body) - 1)) + DigitValue(body[Len(body)])

\* int(text)
IntOf(s) ==
    IF s[1] = "-" THEN 0 - DecimalValue(Tail(s))
    ELSE IF s[1] = "+" THEN DecimalValue(Tail(s))
    ELSE DecimalValue(s)

Unlimited == <<"u", "n", "l", "i", "m", "i", "t", "e", "d">>
Infinite == <<"i", "n", "f", "i", "n", "i", "t", "e">>

\* The words for no limit among the inputs modelled.
UnlimitedWords == {Unlimited, Infinite, <<"-", "1">>}

\* The number handle_menu_max_clients and handle_menu_rate_limit read from
\* an input that is a word for no limit or passes int().
LimitOf(input) ==
    IF input \in UnlimitedWords THEN -1
    ELSE IF IntOf(input) < 0 THEN -1
    ELSE IntOf(input)

\* config.add_authorized_user(user_id)
AddAuthorizedUser(user_id) ==
    /\ Commit(add_authorized_user(Cfg, user_id))
    /\ last' = StoreCall("add_authorized_user", user_id, BoolText(~InList(user_id, authorized_users)))
    /\ UNCHANGED <<wgVars, sess, inflight, created_by>>

\* config.remove_authorized_user(user_id)
RemoveAuthorizedUser(user_id) ==
    /\ Commit(remove_authorized_user(Cfg, user_id))
    /\ last' = StoreCall("remove_authorized_user", user_id, BoolText(CanRemove(Cfg, user_id)))
    /\ UNCHANGED <<wgVars, sess, inflight, created_by>>

\* callback users_add
CallbackUsersAdd(u) ==
    /\ ~Blocked
    /\ is_authorized(u)
    /\ is_owner(u)
    /\ sess' = [sess EXCEPT ![u].menu_state = "waiting_user_id"]
    /\ last' = NoRequest
    /\ UNCHANGED <<policyVars, wgVars, inflight, created_by>>

\* handle_menu_text_input -> handle_menu_user_id, for a numeric user id
MenuUserId(u, new_user_id) ==
    /\ ~Blocked
    /\ is_authorized(u)
    /\ sess[u].menu_state = "waiting_user_id"
    /\ IF ~is_owner(u) \/ is_authorized(new_user_id)
       THEN /\ UNCHANGED policyVars
            /\ last' = NoRequest
       ELSE /\ Commit(set_user_limits(add_authorized_user(Cfg, new_user_id),
                                      new_user_id, default_limits))
            /\ last' = StoreCall("set_user_limits", new_user_id, "None")
    /\ sess' = [sess EXCEPT ![u] = EmptySess]
    /\ UNCHANGED <<wgVars, inflight, created_by>>

\* callback set_max_clients_ID
CallbackSetMaxClients(u, target_user_id) ==
    /\ ~Blocked
    /\ is_authorized(u)
    /\ is_owner(u)
    /\ sess' = [sess EXCEPT ![u].menu_state = "waiting_max_clients",
                            ![u].target_user_id = target_user_id]
    /\ last' = NoRequest
    /\ UNCHANGED <<policyVars, wgVars, inflight, created_by>>

\* callback set_rate_limit_ID
CallbackSetRateLimit(u, target_user_id) ==
    /\ ~Blocked
    /\ is_authorized(u)
    /\ is_owner(u)
    /\ sess' = [sess EXCEPT ![u].menu_state = "waiting_rate_limit",
                            ![u].target_user_id = target_user_id]
    /\ last' = NoRequest
    /\ UNCHANGED <<policyVars, wgVars, inflight, created_by>>

\* handle_menu_max_clients and handle_menu_rate_limit: field is the key set.
MenuLimit(u, state, field, input) ==
    /\ ~Blocked
    /\ is_authorized(u)
    /\ sess[u].menu_state = state
    /\ IF ~is_owner(u) \/ sess[u].target_user_id = 0
       THEN /\ sess' = [sess EXCEPT ![u] = EmptySess]
            /\ last' = NoRequest
            /\ UNCHANGED policyVars
       ELSE IF Lower(Strip(input)) \notin UnlimitedWords /\ ~IsIntText(Lower(Strip(input)))
       THEN /\ last' = NoRequest
            /\ UNCHANGED <<policyVars, sess>>
       ELSE /\ Commit(set_user_limits(Cfg, sess[u].target_user_id,
                        [get_user_limits(sess[u].target_user_id)
                            EXCEPT ![field] = LimitOf(Lower(Strip(input)))]))
            /\ last' = StoreCall("set_user_limits", sess[u].target_user_id, "None")
            /\ sess' = [sess EXCEPT ![u] = EmptySess]
    /\ UNCHANGED <<wgVars, inflight, created_by>>

\* handle_menu_text_input -> handle_menu_max_clients
MenuMaxClients(u, input) == MenuLimit(u, "waiting_max_clients", "max_clients", input)

\* handle_menu_text_input -> handle_menu_rate_limit
MenuRateLimit(u, input) == MenuLimit(u, "waiting_rate_limit", "rate_limit", input)

\* callbacks toggle_backup_ID, toggle_stats_ID, toggle_clients_ID
Toggle(u, field, target_user_id) ==
    /\ ~Blocked
    /\ is_authorized(u)
    /\ is_owner(u)
    /\ Commit(set_user_limits(Cfg, target_user_id,
                [get_user_limits(target_user_id) EXCEPT ![field] = ~@]))
    /\ last' = StoreCall("set_user_limits", target_user_id, "None")
    /\ UNCHANGED <<wgVars, sess, inflight, created_by>>

CallbackToggleBackup(u, target_user_id) == Toggle(u, "can_backup", target_user_id)

CallbackToggleStats(u, target_user_id) == Toggle(u, "can_view_stats", target_user_id)

CallbackToggleClients(u, target_user_id) == Toggle(u, "can_manage_clients", target_user_id)

\* callback reset_limits_ID
CallbackResetLimits(u, target_user_id) ==
    /\ ~Blocked
    /\ is_authorized(u)
    /\ is_owner(u)
    /\ Commit(set_user_limits(Cfg, target_user_id, default_limits))
    /\ last' = StoreCall("set_user_limits", target_user_id, "None")
    /\ UNCHANGED <<wgVars, sess, inflight, created_by>>

-----------------------------------------------------------------------------
(* The live status of a peer: _get_client_status *)

\* None, beside PyInt
PyNone == [t |-> "None", b |-> FALSE, n |-> 0]

\* status['transfer']: None, or {'rx': .., 'tx': ..}
NoTransfer == [t |-> "None", rx |-> 0, tx |-> 0]
Transfer(rx, tx) == [t |-> "dict", rx |-> rx, tx |-> tx]

\* status = {'connected': False, 'last_handshake': None, 'transfer': None}
NotConnected == [connected |-> FALSE, last_handshake |-> PyNone, transfer |-> NoTransfer]

Zero == <<"0">>

\* A status reader that takes the output of any query that ended by itself.
QueryEnded(returncode) == returncode # -1

\* if returncode == 0
QueryOk(returncode) == returncode = 0

\* output.strip().split('\n')[1:]: the lines after the first.
RecordLines(output) == IF output = <<>> THEN <<>> ELSE Tail(output)

\* A reader that takes the first line long enough, whatever its key.
LongEnough(parts, public_key) == Len(parts) >= 6

\* len(parts) >= 6 and parts[0] == public_key
KeyLine(parts, public_key) == Len(parts) >= 6 /\ parts[1] = public_key

\* The body of the loop for the line found; an IndexError or ValueError
\* raised on the way leaves the status as far as it was filled in.
StatusOfLine(parts) ==
    LET handshake_raises == parts[5] # Zero /\ ~IsIntText(parts[5])
        last_handshake == IF parts[5] # Zero /\ IsIntText(parts[5])
                          THEN PyInt(IntOf(parts[5])) ELSE PyNone
        transfer ==
            IF handshake_raises \/ Len(parts) < 7 THEN NoTransfer
            ELSE IF parts[6] = Zero /\ parts[7] = Zero THEN NoTransfer
            ELSE IF IsIntText(parts[6]) /\ IsIntText(parts[7])
            THEN Transfer(IntOf(parts[6]), IntOf(parts[7]))
            ELSE NoTransfer
    IN  [connected |-> TRUE, last_handshake |-> last_handshake, transfer |-> transfer]

\* _get_client_status, from what run_command returned
get_client_status(public_key, returncode, output) ==
    IF ~QueryOk(returncode) THEN NotConnected
    ELSE LET lines == RecordLines(output)
             found == {i \in 1..Len(lines) : KeyLine(lines[i], public_key)}
         IN  IF found = {} THEN NotConnected
             ELSE StatusOfLine(lines[CHOOSE i \in found : \A x \in found : i <= x])

\* The characters that number the keys.
KeyDigits == <<"1", "2", "3", "4", "5", "6", "7", "8", "9">>

\* The text after "PublicKey = " in block number b.
PeerKey(b) == <<"K", KeyDigits[b]>>

\* The name list_clients returns for the lines its name group matched: the
\* name after the marker and, when the group runs on, the following lines.
RECURSIVE NameText(_, _)
NameText(name_lines, names) ==
    IF Len(name_lines) = 1 THEN names[name_lines[1].block]
    ELSE NameText(SubSeq(name_lines, 1, Len(name_lines) - 1), names)
         \o <<"\n", name_lines[Len(name_lines)].kind>>
         \o (IF name_lines[Len(name_lines)].kind = "begin"
             THEN names[name_lines[Len(name_lines)].block] ELSE <<>>)

\* client_info for one match of the pattern, before its status is added
ClientInfo(section, names) ==
    [name |-> NameText(section.name, names),
     public_key |-> PeerKey(section.public_key.block),
     allowed_ips |-> section.allowed_ips.block,
     config_exists |-> find_config_file(NameText(section.name, names))]

\* The names list_clients returns for a text, in its order.
NamesListed(blocks, names) ==
    [n \in 1..Len(list_clients(blocks)) |-> NameText(list_clients(blocks)[n].name, names)]

\* How often x is in the list l.
Count(x, l) == Cardinality({i \in 1..Len(l) : l[i] = x})

\* The numbers of the blocks not named name: what is left of the text when
\* the tool has deleted '# BEGIN_PEER name' to '# END_PEER name'.
BlocksKept(names, name) ==
    SelectSeq([b \in 1..Len(names) |-> b], LAMBDA b : names[b] # name)

\* arcname of a profile in the archive
Arcname(name) == <<"clients/">> \o name \o <<".conf">>

\* arcname of the server config
ServerArcname == <<"wg0.conf">>

\* f"Backup created: {backup_filename}"
BackupCreated == << <<"Backup created: ">>, <<"wireguard_backup_">>, <<"%Y%m%d_%H%M%S">>,
                    <<".tar.gz">> >>

\* f"Error creating backup: {str(e)}"
BackupError == << <<"Error creating backup: ">> >>

\* The entries the loop over clients adds to the archive.
RECURSIVE ClientArcnames(_, _)
ClientArcnames(clients, files) ==
    IF clients = <<>> THEN <<>>
    ELSE (IF clients[1] \in files THEN <<Arcname(clients[1])>> ELSE <<>>)
         \o ClientArcnames(Tail(clients), files)

\* No list_clients call yet.
NotListed == [phase |-> "idle", sections |-> <<>>, clients |-> <<>>, queries |-> <<>>,
              readable |-> TRUE, raised |-> FALSE]

\* No backup_configs call yet.
NoBackup == [done |-> FALSE, success |-> FALSE, message |-> <<>>, archive |-> <<>>,
             clients |-> <<>>, located |-> {}]

InitLive ==
    /\ wg_conf_names = <<>>
    /\ wg_dump = <<>>
    /\ listing = NotListed
    /\ backup = NoBackup

\* list_clients up to the loop: [] when wg0.conf does not exist, and when
\* open or read raises (the exception is logged); else the matches of the
\* pattern are what the loop goes through.
ListClientsBegin ==
    /\ listing.phase # "running"
    /\ \E readable \in BOOLEAN :
          LET sections == IF wg_conf_exists /\ readable
                          THEN FindAll(ConfLines(wg_conf_blocks), 1) ELSE <<>>
          IN  listing' = [NotListed EXCEPT
                              !.phase = IF sections = <<>> THEN "done" ELSE "running",
                              !.sections = sections,
                              !.readable = wg_conf_exists /\ readable]
    /\ UNCHANGED <<policyVars, wg_conf_exists, script_exists, peers, conf_files, runVars,
                   parseVars, wg_conf_names, wg_dump, backup>>

\* One pass of the loop: client_info of the next match, with the status
\* _get_client_status reads from a `wg show wg0 dump` of its own; after the
\* last match list_clients returns.
ClientStatus ==
    /\ listing.phase = "running"
    /\ \E returncode \in ReturnCodes :
          LET section == listing.sections[Len(listing.clients) + 1]
              output == IF returncode = -1 THEN <<>> ELSE wg_dump
              info == ClientInfo(section, wg_conf_names)
              client_info == [name |-> info.name, public_key |-> info.public_key,
                              allowed_ips |-> info.allowed_ips,
                              config_exists |-> info.config_exists,
                              status |-> get_client_status(info.public_key,
                                                           returncode, output)]
          IN  listing' = [listing EXCEPT
                              !.clients = Append(@, client_info),
                              !.queries = Append(@, [returncode |-> returncode,
                                                     output |-> output]),
                              !.phase = IF Len(listing.clients) + 1 = Len(listing.sections)
                                        THEN "done" ELSE "running"]
    /\ UNCHANGED <<policyVars, wg_conf_exists, script_exists, peers, conf_files, runVars,
                   parseVars, wg_conf_names, wg_dump, backup>>

\* add_client from run_command on, with wg0.conf kept block by block and a
\* tool that honours its contract: it exits 0 exactly when it has appended
\* the peer's block and written NAME.conf.
AddClientReturnConf ==
    \E c \in inflight, returncode \in ReturnCodes :
        /\ c.op = "add"
        /\ ~script_exists => returncode = 1
        /\ wg_conf_blocks' = IF returncode = 0 THEN Append(wg_conf_blocks, "ok")
                             ELSE wg_conf_blocks
        /\ wg_conf_names' = IF returncode = 0 THEN Append(wg_conf_names, c.name)
                            ELSE wg_conf_names
        /\ peers' = NamesListed(wg_conf_blocks', wg_conf_names')
        /\ conf_files' = IF returncode = 0 THEN conf_files \cup {c.name} ELSE conf_files
        /\ created_by' = IF returncode = 0 THEN Put(created_by, c.name, c.user) ELSE created_by
        /\ last' = [last EXCEPT !.phase = "done", !.rc = returncode,
                                !.result = AddClientOutcome(returncode, c.name \in conf_files')]
        /\ inflight' = inflight \ {c}
        /\ sess' = [sess EXCEPT ![c.user] = EmptySess]
        /\ UNCHANGED <<policyVars, wg_conf_exists, script_exists, status, wg_dump, listing,
                       backup>>

\* remove_client from run_command on, with the same tool: it exits 0
\* exactly when it has deleted the blocks of that name; the profile file
\* may stay.
RemoveClientReturnConf ==
    \E c \in inflight, returncode \in ReturnCodes, unlinked \in BOOLEAN :
      \E out \in Captured(returncode) :
        /\ c.op = "remove"
        /\ ~script_exists => returncode = 1
        /\ returncode # 0 => ~unlinked
        /\ LET kept == IF returncode = 0 THEN BlocksKept(wg_conf_names, c.name)
                       ELSE [b \in 1..Len(wg_conf_names) |-> b]
           IN  /\ wg_conf_blocks' = [k \in 1..Len(kept) |-> wg_conf_blocks[kept[k]]]
               /\ wg_conf_names' = [k \in 1..Len(kept) |-> wg_conf_names[kept[k]]]
        /\ peers' = NamesListed(wg_conf_blocks', wg_conf_names')
        /\ conf_files' = IF unlinked THEN conf_files \ {c.name} ELSE conf_files
        /\ created_by' = IF returncode = 0 THEN Drop(created_by, c.name) ELSE created_by
        /\ last' = [last EXCEPT !.phase = "done", !.rc = returncode,
                                !.result = RemoveClientOutcome(returncode),
                                !.stdout = IF returncode # 0 THEN out.stdout ELSE <<>>,
                                !.stderr = IF returncode # 0 THEN out.stderr ELSE <<>>,
                                !.message = IF returncode # 0
                                            THEN ErrorMessage(out.stdout, out.stderr)
                                            ELSE <<>>]
        /\ inflight' = inflight \ {c}
        /\ UNCHANGED <<policyVars, wg_conf_exists, script_exists, sess, status, wg_dump,
                       listing, backup>>

\* backup_configs: wg0.conf when it exists, then the profile of every
\* listed client that find_config_file locates; an exception on the way
\* (the archive cannot be written) gives the error result.
BackupConfigs ==
    /\ ~Blocked
    /\ \E written \in BOOLEAN :
          LET clients == NamesListed(wg_conf_blocks, wg_conf_names)
              located == {clients[n] : n \in {i \in 1..Len(clients) :
                                                  find_config_file(clients[i])}}
          IN  backup' =
                IF written
                THEN [done |-> TRUE, success |-> TRUE, message |-> BackupCreated,
                      archive |-> (IF wg_conf_exists THEN <<ServerArcname>> ELSE <<>>)
                                  \o ClientArcnames(clients, conf_files),
                      clients |-> clients, located |-> located]
                ELSE [done |-> TRUE, success |-> FALSE, message |-> BackupError,
                      archive |-> <<>>, clients |-> clients, located |-> located]
    /\ UNCHANGED <<policyVars, wg_conf_exists, script_exists, peers, conf_files, runVars,
                   parseVars, wg_conf_names, wg_dump, listing>>

-----------------------------------------------------------------------------
(* The dispatcher: setup_handlers of main.py.  Every handler is added to    *)
(* group 0, so an update goes to the first handler, in the order of the     *)
(* add_handler calls, whose check_update accepts it, and to no other.       *)

\* The handlers in the order setup_handlers adds them.
Handlers == <<"start", "help", "status", "install", "users",
              "handle_menu_callback", "handle_menu_text_input",
              "add_client_conv", "add_user_conv">>

Command(command) == [kind |-> "command", command |-> command]
TextMessage == [kind |-> "text", command |-> "none"]

\* ConversationHandler.check_update: the entry points while the user has no
\* conversation, else the handlers of the user's state, then the fallbacks.
ConversationAccepts(entry, texts, commands, state, update) ==
    IF state = "END"
    THEN update = Command(entry)
    ELSE \/ update.kind = "text" /\ state \in texts
         \/ update.kind = "command" /\ <<state, update.command>> \in commands
         \/ update = Command("cancel")

\* check_update of the handler added under this name, for an update of user u.
Accepts(handler, u, update) ==
    CASE handler = "handle_menu_callback" -> update.kind = "callback"
      [] handler = "handle_menu_text_input" -> update.kind = "text"
      [] handler = "add_client_conv" ->
            ConversationAccepts("add_client", {"WAITING_CLIENT_NAME", "WAITING_DNS_SERVERS"},
                                {<<"WAITING_DNS_SERVERS", "skip">>},
                                conversations.add_client_conv[u], update)
      [] handler = "add_user_conv" ->
            ConversationAccepts("add_user", {"WAITING_USER_ID"}, {},
                                conversations.add_user_conv[u], update)
      [] OTHER -> update = Command(handler)

\* The handler that handles the update: the first one that accepts it.
handler_for(u, update) ==
    LET accepting == {i \in 1..Len(Handlers) : Accepts(Handlers[i], u, update)}
    IN  IF accepting = {} THEN "none"
        ELSE Handlers[CHOOSE i \in accepting : \A j \in accepting : i <= j]

\* A callback of main.py ran for user_id and returned this conversation state.
Handled(callback, user_id, state) ==
    [NoRequest EXCEPT !.op = callback, !.arg = user_id, !.phase = "done",
                      !.result = state]

\* The Cancel and Back buttons of the dialogs: callback menu_clients of the
\* add-client dialog, menu_users of the add-user dialog, limits_user_ID of
\* the two set-limit dialogs.  Each branch edits the message and returns.
CallbackCancel(u, callback_data) ==
    /\ ~Blocked
    /\ last' = IF ~is_authorized(u) \/ (callback_data = "limits_user" /\ ~is_owner(u))
               THEN NoRequest
               ELSE Handled(callback_data, u, "None")
    /\ UNCHANGED <<policyVars, wgVars, sess, inflight, created_by>>

\* create_client of main.py: add_client is called with the stored name and
\* DNS servers; the conversation ends whatever it returns.
create_client(u, dns_servers) ==
    LET client_name == sess[u].client_name
        check == AddClientCheck(client_name, dns_servers)
    IN  /\ IF check = "ok"
           THEN /\ inflight' = inflight \cup {Call(u, "add", sanitize_client_name(client_name))}
                /\ last' = Started(u, "add", sanitize_client_name(client_name))
           ELSE /\ inflight' = inflight
                /\ last' = Refused(u, "add", sanitize_client_name(client_name), check)
        /\ sess' = [sess EXCEPT ![u].dns_servers = dns_servers]
        /\ conversations' = [conversations EXCEPT !.add_client_conv[u] = "END"]
        /\ UNCHANGED <<storeVars, environ, wgVars, created_by>>

\* The callback returned a state without calling the manager or the store.
Returned(callback, u, conversation, state) ==
    /\ conversations' = [conversations EXCEPT ![conversation][u] = state]
    /\ last' = Handled(callback, u, state)
    /\ UNCHANGED <<storeVars, environ, wgVars, sess, inflight, created_by>>

add_client_start(u) ==
    IF ~is_authorized(u) \/ ~is_installed
    THEN Returned("add_client_start", u, "add_client_conv", "END")
    ELSE Returned("add_client_start", u, "add_client_conv", "WAITING_CLIENT_NAME")

add_client_name(u, text) ==
    LET sanitized_name == sanitize_client_name(Strip(text))
    IN  IF sanitized_name = <<>> \/ InList(sanitized_name, ListClientNames)
        THEN Returned("add_client_name", u, "add_client_conv", "WAITING_CLIENT_NAME")
        ELSE /\ sess' = [sess EXCEPT ![u].client_name = sanitized_name]
             /\ conversations' = [conversations EXCEPT
                                     !.add_client_conv[u] = "WAITING_DNS_SERVERS"]
             /\ last' = Handled("add_client_name", u, "WAITING_DNS_SERVERS")
             /\ UNCHANGED <<storeVars, environ, wgVars, inflight, created_by>>

add_client_dns(u, text) ==
    IF ~validate_dns_servers(Strip(text))
    THEN Returned("add_client_dns", u, "add_client_conv", "WAITING_DNS_SERVERS")
    ELSE create_client(u, Strip(text))

skip_dns(u) == create_client(u, DefaultDns)

add_user_start(u) ==
    IF ~is_owner(u)
    THEN Returned("add_user_start", u, "add_user_conv", "END")
    ELSE Returned("add_user_start", u, "add_user_conv", "WAITING_USER_ID")

\* add_user_id: no check of who sends the text.
add_user_id(u, text) ==
    IF ~IsIntText(Strip(text))
    THEN Returned("add_user_id", u, "add_user_conv", "WAITING_USER_ID")
    ELSE LET new_user_id == IntOf(Strip(text))
             c == add_authorized_user(Cfg, new_user_id)
         IN  /\ authorized_users' = c.au
             /\ user_limits' = c.ul
             /\ config_file' = c.file
             /\ conversations' = [conversations EXCEPT !.add_user_conv[u] = "END"]
             /\ last' = StoreCall("add_authorized_user", new_user_id,
                                  BoolText(~InList(new_user_id, authorized_users)))
             /\ UNCHANGED <<limits, environ, wgVars, sess, inflight, created_by>>

\* handle_menu_user_id for a text resolve_user_identifier does not resolve
\* (here: one that is not a number).
MenuUserIdUnresolved(u) ==
    /\ ~Blocked
    /\ is_authorized(u)
    /\ sess[u].menu_state = "waiting_user_id"
    /\ sess' = IF ~is_owner(u) THEN [sess EXCEPT ![u] = EmptySess] ELSE sess
    /\ last' = NoRequest
    /\ UNCHANGED <<policyVars, wgVars, inflight, created_by>>

\* handle_menu_text_input: the handler of the user's menu_state, if any.
handle_menu_text_input(u, text) ==
    IF ~is_authorized(u) \/ sess[u].menu_state = "none"
    THEN NoEffectUpdate(u)
    ELSE \/ MenuClientName(u, text)
         \/ MenuDnsServers(u, text)
         \/ IsIntText(Strip(text)) /\ MenuUserId(u, IntOf(Strip(text)))
         \/ ~IsIntText(Strip(text)) /\ MenuUserIdUnresolved(u)
         \/ MenuMaxClients(u, text)
         \/ MenuRateLimit(u, text)

\* The callbacks of a ConversationHandler for the update it accepted.
conversation_update(handler, u, update, text) ==
    LET state == conversations[handler][u]
    IN  CASE update = Command("cancel") /\ state # "END" ->
                Returned("cancel_conversation", u, handler, "END")
          [] update = Command("add_client") -> add_client_start(u)
          [] update = Command("add_user") -> add_user_start(u)
          [] update = Command("skip") -> skip_dns(u)
          [] update.kind = "text" /\ state = "WAITING_CLIENT_NAME" -> add_client_name(u, text)
          [] update.kind = "text" /\ state = "WAITING_DNS_SERVERS" -> add_client_dns(u, text)
          [] OTHER -> add_user_id(u, text)

\* A command /add_client, /add_user, /skip or /cancel of user u.
CommandUpdate(u, command) ==
    /\ ~Blocked
    /\ LET handler == handler_for(u, Command(command))
       IN  IF handler \in {"add_client_conv", "add_user_conv"}
           THEN conversation_update(handler, u, Command(command), <<>>)
           ELSE /\ last' = NoRequest
                /\ UNCHANGED <<policyVars, wgVars, sess, inflight, created_by>>

\* A text of user u that is not a command.
TextUpdate(u, text) ==
    /\ ~Blocked
    /\ LET handler == handler_for(u, TextMessage)
       IN  IF handler = "handle_menu_text_input"
           THEN handle_menu_text_input(u, text)
           ELSE conversation_update(handler, u, TextMessage, text)

-----------------------------------------------------------------------------
(* The state after construction *)

\* MAX_CLIENTS_PER_USER and RATE_LIMIT_PER_USER of the environment
EnvLimits == {[max_clients |-> 100, rate_limit |-> 10]}

\* AUTHORIZED_USERS of the environment, parsed
EnvAuthorizedUsers == {<<2>>}

\* user_limits of a wirebot_config.json found at start
StoredUserLimits == {Put(<<>>, 2, Limits(1, 10, TRUE, TRUE, TRUE))}

\* _load_config: the environment decides authorized_users and limits; the
\* file, when there is one, gives user_limits and is not rewritten.
InitPolicy(envUsers, envLimits, stored) ==
    /\ \E additional \in envUsers :
          /\ environ = [AUTHORIZED_USERS |-> additional]
          /\ authorized_users = <<OWNER_ID>> \o additional
    /\ conversations = NoConversations
    /\ limits \in envLimits
    /\ \E file \in BOOLEAN, ul \in stored, au \in {<<OWNER_ID>>} :
          IF file
          THEN /\ user_limits = ul
               /\ config_file = [exists |-> TRUE, authorized_users |-> au, user_limits |-> ul]
          ELSE /\ user_limits = <<>>
               /\ config_file = [exists |-> TRUE, authorized_users |-> authorized_users,
                                 user_limits |-> <<>>]

InitRun ==
    /\ InitParse
    /\ InitLive
    /\ sess = [u \in Users |-> EmptySess]
    /\ inflight = {}
    /\ last = NoRequest

Init ==
    /\ InitPolicy(EnvAuthorizedUsers, EnvLimits, StoredUserLimits)
    /\ wg_conf_exists \in BOOLEAN
    /\ script_exists \in BOOLEAN
    /\ peers = <<>>
    /\ conf_files = {}
    /\ created_by = <<>>
    /\ InitRun

Next ==
    \/ \E u \in Users :
          \/ NoEffectUpdate(u)
          \/ CallbackClientAdd(u)
          \/ \E text \in RawNames : MenuClientName(u, text)
          \/ \E text \in DnsInputs : MenuDnsServers(u, text)
          \/ CallbackUseDefaultDns(u)
          \/ \E n \in ValidNames : CallbackConfirmRemove(u, n)
          \/ CmdInstall(u)
          \/ CallbackBackupCreate(u)
    \/ AddClientReturn
    \/ RemoveClientReturn
    \/ InstallReturn
    \/ BackupReturn

Spec == Init /\ [][Next]_vars

-----------------------------------------------------------------------------
(* Properties of the manager calls, under Spec *)

\* Whether the design's quota check fails for the request in last.
QuotaFails == last.op = "add" /\ ~last.allowed

\* C1: an AddClient request of an operator whose quota check fails (cannot
\* manage clients, or owns max_clients peers or more) never invokes the tool
\* and ends in the failure QuotaExceeded.
C1_QuotaExceededNoInvocation ==
    QuotaFails =>
        /\ last.runs = 0
        /\ last.phase = "done"
        /\ last.result = "QuotaExceeded"

\* C2: an AddClient request that passed add_client's checks has invoked the
\* tool exactly once, while it runs and after it ended; when the invocation
\* exited nonzero or timed out the request has ended in failure, still with
\* that one invocation.
C2_ExactlyOneInvocation ==
    (last.op = "add" /\ last.check = "ok") =>
        /\ last.runs = 1
        /\ (last.phase = "done" /\ last.rc # 0) => ~Success(last.result)

\* An AddClient request whose one invocation timed out has ended.
C2_FailedInvocation ==
    /\ last.op = "add"
    /\ last.phase = "done"
    /\ last.check = "ok"
    /\ last.rc = -1
    /\ last.runs = 1
    /\ last.result = "ScriptFailed"

\* C3: an AddClient request whose invocation exited 0 while no peer of that
\* name is in the parsed configuration ends in failure (the design's
\* VerificationError; the kinds of failure are not told apart here): no
\* AddClient request reports success while the name is absent.
C3_VerifiedAfterExitZero ==
    (last.op = "add" /\ last.phase = "done" /\ last.check = "ok"
        /\ last.rc = 0 /\ ~InList(last.name, ListClientNames)) =>
        ~Success(last.result)

\* C4: at most one manager call (AddClient, RemoveClient, Install,
\* BackupConfigs) is between its first check and its result at any time.
C4_MutualExclusion == Cardinality(inflight) <= 1

\* A manager call of one user is in progress while another user's session
\* waits with a name entered, one message away from calling add_client.
C4_SecondSessionReady ==
    \E c \in inflight : \E u \in Users :
        /\ u # c.user
        /\ c.op = "add"
        /\ sess[u].menu_state = "waiting_dns_servers"

\* C8: for every operator can_user_add_client equals the design's
\* CanAddClient over the peers the operator owns; an operator who owns
\* max_clients peers is rejected.
C8_CanAddMatchesOwnedCount ==
    \A u \in Users : can_user_add_client(u) = CanAddClient(u)

-----------------------------------------------------------------------------
(* The manager on its own: calls of add_client, remove_client and       *)
(* install_wireguard with any arguments                                  *)

\* The client_name and dns_servers arguments of add_client, and the names
\* remove_client is called with.
CallNames == {<<>>,
              <<"a">>,
              <<"A">>,
              <<"!">>}
CallDns == {<<"8", ".", "8", ".", "8", ".", "8">>,
            <<"8", ".", "8", ".", "8", ".", "8", ",", "8", ".", "8", ".", "4", ".", "4">>,
            <<"8", ".", "8", ".", "8", ".", "8", ",">>,
            <<"2", "5", "6", ".", "1", ".", "1", ".", "1">>,
            <<"1", ".", "1", ".", "1">>,
            <<" ", "8", ".", "8", ".", "8", ".", "8", " ", ",", "8", ".", "8", ".", "4", ".", "4">>,
            <<"0", "8", ".", "8", ".", "8", ".", "8">>,
            <<>>}
RemoveNames == {sanitize_client_name(n) : n \in CallNames \ {<<>>}}

\* wg_manager.add_client(client_name, dns_servers)
AddClientCall(u, client_name, dns_servers) ==
    /\ ~Blocked
    /\ LET check == AddClientCheck(client_name, dns_servers)
           name == sanitize_client_name(client_name)
       IN  IF check = "ok"
           THEN /\ inflight' = inflight \cup {Call(u, "add", name)}
                /\ last' = [Started(u, "add", name) EXCEPT !.raw = client_name,
                                                           !.dns = dns_servers]
           ELSE /\ inflight' = inflight
                /\ last' = [Refused(u, "add", name, check) EXCEPT !.raw = client_name,
                                                                  !.dns = dns_servers]
    /\ UNCHANGED <<policyVars, wgVars, sess, created_by>>

\* wg_manager.install_wireguard()
InstallCall(u) ==
    /\ ~Blocked
    /\ IF InstallCheck = "ok"
       THEN /\ inflight' = inflight \cup {Call(u, "install", <<>>)}
            /\ last' = [Started(u, "install", <<>>) EXCEPT !.installed = is_installed]
       ELSE /\ inflight' = inflight
            /\ last' = [Refused(u, "install", <<>>, InstallCheck) EXCEPT !.installed = is_installed]
    /\ UNCHANGED <<policyVars, wgVars, sess, created_by>>

\* A fresh host: wg0.conf is written by the first install that succeeds.
InitManager ==
    /\ InitPolicy({<<>>}, EnvLimits, {<<>>})
    /\ wg_conf_exists = FALSE
    /\ script_exists \in BOOLEAN
    /\ peers = <<>>
    /\ conf_files = {}
    /\ created_by = <<>>
    /\ InitRun

NextManager ==
    \/ \E client_name \in CallNames, dns_servers \in CallDns :
          AddClientCall(OWNER_ID, client_name, dns_servers)
    \/ AddClientReturn
    \/ \E client_name \in RemoveNames : CallbackConfirmRemove(OWNER_ID, client_name)
    \/ RemoveClientReturn
    \/ InstallCall(OWNER_ID)
    \/ InstallReturn

SpecManager == InitManager /\ [][NextManager]_vars

-----------------------------------------------------------------------------
(* Properties of the manager's checks and results, under SpecManager *)

AllowedNameChars == Digits \cup Lowercase \cup Uppercase \cup {"_", "-"}

\* The design's sanitizer: the disallowed characters are dropped, then the
\* name is cut to 15 characters.
StrippedName(name) ==
    LET kept == SelectSeq(name, LAMBDA ch : ch \in AllowedNameChars)
    IN  SubSeq(kept, 1, IF Len(kept) < NameLimit THEN Len(kept) ELSE NameLimit)

\* C11: the name add_client works with is the given name without its
\* disallowed characters, cut to 15; a request whose name has no allowed
\* character fails with the validation error and never invokes the tool.
C11_StrippedNameValidated ==
    last.op = "add" =>
        /\ last.name = StrippedName(last.raw)
        /\ StrippedName(last.raw) = <<>> =>
              (last.result = "InvalidName" /\ last.runs = 0)

\* A decimal octet 0..255 written without leading zeros.
WellFormedOctet(p) ==
    /\ Len(p) \in 1..3
    /\ \A i \in 1..Len(p) : p[i] \in Digits
    /\ (Len(p) > 1 => p[1] # "0")
    /\ DecimalValue(p) <= 255

\* Four dot-separated decimal octets.
WellFormedIPv4(entry) ==
    /\ Len(Split(entry, ".")) = 4
    /\ \A i \in 1..4 : WellFormedOctet(Split(entry, ".")[i])

C13_TakenNameRefused ==
    (last.op = "add" /\ last.name # <<>> /\ (last.phase = "executing" \/ last.runs = 0)) =>
        IF InList(last.name, ListClientNames)
        THEN last.result = "AlreadyExists" /\ last.runs = 0 /\ last.phase = "done"
        ELSE last.result # "AlreadyExists"

\* A request for the name of an existing peer was refused while a peer whose
\* name differs only in case is absent.
C13_SameNameRefused ==
    /\ last.op = "add"
    /\ last.result = "AlreadyExists"
    /\ last.runs = 0
    /\ last.name = <<"a">>
    /\ InList(<<"a">>, ListClientNames)
    /\ ~InList(<<"A">>, ListClientNames)

\* C14: a remove_client request for a name that no peer of the configuration
\* has at the time of the request fails with NotFound and invokes no tool.
C14_AbsentNameNotFound ==
    (last.op = "remove" /\ (last.phase = "executing" \/ last.runs = 0)) =>
        IF InList(last.name, ListClientNames)
        THEN last.phase = "executing" /\ last.runs = 1
        ELSE last.result = "NotFound" /\ last.runs = 0 /\ last.phase = "done"

\* A removal of an absent name was refused while another peer exists.
C14_OtherPeerNotFound ==
    /\ last.op = "remove"
    /\ last.result = "NotFound"
    /\ last.runs = 0
    /\ peers # <<>>
    /\ ~InList(last.name, ListClientNames)

C16_InstalledNeverReinstalled ==
    last.op = "install" =>
        /\ last.installed =>
              (last.result = "AlreadyInstalled" /\ last.runs = 0 /\ last.phase = "done")
        /\ last.runs >= 1 => ~last.installed

\* After an install wrote wg0.conf, a further install request was refused.
C16_SecondInstallRefused ==
    /\ last.op = "install"
    /\ last.installed
    /\ last.result = "AlreadyInstalled"
    /\ last.runs = 0
    /\ is_installed

\* C17: an add_client request whose tool exited 0 while no profile file of
\* the name is found is not reported as failed.
C17_MissingProfileNotFailure ==
    (last.op = "add" /\ last.phase = "done" /\ last.check = "ok" /\ last.rc = 0
        /\ ~find_config_file(last.name)) =>
        Success(last.result)

-----------------------------------------------------------------------------
(* The policy store on its own: every call of the store, and the owner's *)
(* handlers that change it                                               *)

\* The ids the owner types, and the ids on the limit buttons pressed.
StoreCallIds == {1, 2}
NewUserIds == {3}
LimitTargets == {1, 2}
MaxClientsInputs == {<<"U">> \o Tail(Unlimited), <<"0", " ">>, <<"-", "5">>, <<"x">>}
RateLimitInputs == {Unlimited, <<"x">>}

EnvLimitsPolicy == {[max_clients |-> 100, rate_limit |-> 10],
                    [max_clients |-> 0, rate_limit |-> 10]}

EnvAuthorizedUsersPolicy == {<<>>, <<1, 2>>}

\* A file from an earlier run in which user 1 was not the owner and had a
\* record of its own, and one with a record of user 2.
StoredUserLimitsPolicy ==
    {Put(<<>>, 1, Limits(0, 5, FALSE, FALSE, FALSE)),
     Put(<<>>, 2, Limits(-1, 10, TRUE, TRUE, TRUE))}

\* wg0.conf at start holds one peer, which user 2 had created in an
\* earlier run.
StoredPeer == <<"a">>

InitStore ==
    /\ InitPolicy(EnvAuthorizedUsersPolicy, EnvLimitsPolicy, StoredUserLimitsPolicy)
    /\ wg_conf_exists = TRUE
    /\ script_exists = TRUE
    /\ peers = <<StoredPeer>>
    /\ created_by = Put(<<>>, StoredPeer, 2)
    /\ conf_files = {}
    /\ InitRun

NextStore ==
    \/ \E user_id \in StoreCallIds :
          \/ AddAuthorizedUser(user_id)
          \/ RemoveAuthorizedUser(user_id)
    \/ \E u \in Users :
          \/ NoEffectUpdate(u)
          \/ CallbackUsersAdd(u)
          \/ \E new_user_id \in NewUserIds : MenuUserId(u, new_user_id)
          \/ \E t \in LimitTargets :
                \/ CallbackSetMaxClients(u, t)
                \/ CallbackSetRateLimit(u, t)
                \/ CallbackToggleBackup(u, t)
                \/ CallbackToggleStats(u, t)
                \/ CallbackToggleClients(u, t)
                \/ CallbackResetLimits(u, t)
          \/ \E input \in MaxClientsInputs : MenuMaxClients(u, input)
          \/ \E input \in RateLimitInputs : MenuRateLimit(u, input)

SpecStore == InitStore /\ [][NextStore]_vars

-----------------------------------------------------------------------------
(* Properties of the policy store, under SpecStore *)

\* C5: after any sequence of add_authorized_user and remove_authorized_user
\* calls the owner id is in authorized_users; remove_authorized_user(owner)
\* returns False and leaves the store as it was.
C5_OwnerStaysAuthorized ==
    /\ InList(OWNER_ID, authorized_users)
    /\ ~CanRemove(Cfg, OWNER_ID)
    /\ remove_authorized_user(Cfg, OWNER_ID) = Cfg
    /\ (last.op = "remove_authorized_user" /\ last.arg = OWNER_ID) => last.result = "False"

\* remove_authorized_user(owner) has returned False while other users are
\* authorized.
C5_OwnerRemovalRefused ==
    /\ last = StoreCall("remove_authorized_user", OWNER_ID, "False")
    /\ Len(authorized_users) > 1
    /\ InList(OWNER_ID, authorized_users)

\* C6: in every reachable state get_user_limits(owner) is the fixed record
\* {-1, -1, true, true, true}, whatever user_limits holds under the owner's
\* key and whatever the default limits are.
C6_OwnerLimitsFixed == get_user_limits(OWNER_ID) = OwnerLimits

\* A handler has read the owner's limits while user_limits holds another
\* record under the owner's key and the default max_clients is 0.
C6_StoredOwnerRecordIgnored ==
    /\ last = StoreCall("set_user_limits", OWNER_ID, "None")
    /\ OWNER_ID \in DOMAIN user_limits
    /\ user_limits[OWNER_ID] # OwnerLimits
    /\ limits.max_clients = 0

\* C7: a step that calls set_user_limits(owner, .) leaves user_limits and
\* the persisted file as they were, and no step of the limit-setting, toggle
\* and reset handlers creates a record under the owner's key.
C7_OwnerLimitsNeverSet ==
    [][/\ (last'.op = "set_user_limits" /\ last'.arg = OWNER_ID) =>
              (user_limits' = user_limits /\ config_file' = config_file)
       /\ OWNER_ID \notin DOMAIN user_limits => OWNER_ID \notin DOMAIN user_limits'
       /\ OWNER_ID \notin DOMAIN config_file.user_limits =>
              OWNER_ID \notin DOMAIN config_file'.user_limits]_vars

\* set_user_limits(owner, .) has returned in a store that holds a record of
\* another user and none of the owner.
C7_OwnerSetIgnored ==
    /\ last = StoreCall("set_user_limits", OWNER_ID, "None")
    /\ OWNER_ID \notin DOMAIN user_limits
    /\ \E u \in Users : u \in DOMAIN user_limits

\* C9 as stated: can_user_add_client rejects every operator whose effective
\* max_clients is 0 and accepts every operator whose effective max_clients
\* is -1, for every owned-peer count.
C9_ZeroRejectsUnlimitedAccepts ==
    \A u \in Users :
        /\ get_user_limits(u).max_clients = 0 => ~can_user_add_client(u)
        /\ get_user_limits(u).max_clients = -1 => can_user_add_client(u)

\* C9: can_user_add_client rejects every operator whose effective
\* max_clients is 0, and accepts every operator whose effective max_clients
\* is -1 and who may manage clients, for every owned-peer count.
C9_ZeroRejectsUnlimitedManagerAccepts ==
    \A u \in Users :
        /\ get_user_limits(u).max_clients = 0 => ~can_user_add_client(u)
        /\ (get_user_limits(u).max_clients = -1 /\ get_user_limits(u).can_manage_clients)
              => can_user_add_client(u)

\* The owner has just set the limits of an operator who is now unlimited,
\* may manage clients and owns a peer, while another operator has
\* max_clients 0.
C9_ZeroAndUnlimitedOperators ==
    \E u, v \in Users :
        /\ last = StoreCall("set_user_limits", v, "None")
        /\ get_user_limits(u).max_clients = 0
        /\ ~is_owner(v)
        /\ get_user_limits(v).max_clients = -1
        /\ get_user_limits(v).can_manage_clients
        /\ OwnedCount(v) > 0

\* The action names asked about: the three the map knows, one it does not,
\* and three that are fields of a limits record.
ActionNames == {"backup", "view_stats", "manage_clients", "restart",
                "can_backup", "max_clients", "rate_limit"}

\* C10: can_user_perform_action answers backup, view_stats and
\* manage_clients with the operator's flags and every other action name,
\* names of limits fields included, with true.
C10_UnknownActionsAllowed ==
    \A u \in Users :
        /\ can_user_perform_action(u, "backup") = PyBool(get_user_limits(u).can_backup)
        /\ can_user_perform_action(u, "view_stats") = PyBool(get_user_limits(u).can_view_stats)
        /\ can_user_perform_action(u, "manage_clients") = PyBool(get_user_limits(u).can_manage_clients)
        /\ \A action \in ActionNames \ {"backup", "view_stats", "manage_clients"} :
              Truthy(can_user_perform_action(u, action))

-----------------------------------------------------------------------------
(* The parser on its own: texts of up to MaxBlocks blocks of any shape *)

InitParser ==
    /\ InitPolicy({<<>>}, EnvLimits, {<<>>})
    /\ wg_conf_exists = TRUE
    /\ script_exists = TRUE
    /\ peers = <<>>
    /\ conf_files = {}
    /\ created_by = <<>>
    /\ InitRun

NextParser ==
    \/ \E shape \in Shapes : WriteBlock(shape)
    \/ GetServerStatus

SpecParse == InitParser /\ [][NextParser]_vars

\* The entry a complete block number b gives.
EntryOf(b) ==
    [name |-> <<Line("begin", b)>>,
     public_key |-> Line("pubkey", b),
     allowed_ips |-> Line("allowed", b)]

\* The numbers of the complete blocks, in file order.
WellFormedBlocks == SelectSeq([b \in 1..Len(wg_conf_blocks) |-> b],
                              LAMBDA b : wg_conf_blocks[b] = "ok")

\* C18: for a text of N complete blocks list_clients returns N entries in
\* file order, each with the name, key and addresses of its own block, and
\* N is the client_count counted from the markers.
C18_WellFormedAllListed ==
    (status.read /\ \A b \in 1..Len(wg_conf_blocks) : wg_conf_blocks[b] = "ok") =>
        /\ Len(status.clients) = Len(wg_conf_blocks)
        /\ \A b \in 1..Len(wg_conf_blocks) : status.clients[b] = EntryOf(b)
        /\ status.client_count = Len(wg_conf_blocks)

\* A text of MaxBlocks complete blocks has been read.
C18_FullTextRead ==
    /\ status.read
    /\ Len(wg_conf_blocks) = MaxBlocks
    /\ \A b \in 1..Len(wg_conf_blocks) : wg_conf_blocks[b] = "ok"
    /\ Len(status.clients) = MaxBlocks

\* C19: for a text mixing complete and malformed blocks list_clients returns
\* exactly the entries of the complete blocks, in file order.
C19_OnlyWellFormedListed ==
    status.read =>
        /\ Len(status.clients) = Len(WellFormedBlocks)
        /\ \A n \in 1..Len(WellFormedBlocks) : status.clients[n] = EntryOf(WellFormedBlocks[n])

\* C20: for a text with at least one malformed block the client_count is
\* greater than the number of entries list_clients returns.
C20_MalformedShowsInCount ==
    (status.read /\ \E b \in 1..Len(wg_conf_blocks) : wg_conf_blocks[b] # "ok") =>
        status.client_count > Len(status.clients)

\* A block without AllowedIPs followed by a complete one has been read: one
\* entry for two markers.
C20_TwoMarkersOneEntry ==
    /\ status.read
    /\ wg_conf_blocks = <<"no_ips", "ok">>
    /\ status.client_count = 2
    /\ Len(status.clients) = 1

-----------------------------------------------------------------------------
(* The status of one peer, for the outputs the status query can print *)

\* How many lines the output has after its first line, at most.
MaxRecords == 2

\* A line of fields: the first n of public key, preshared key, endpoint,
\* allowed ips, latest handshake, transfer rx, transfer tx, keepalive, and
\* one more.
Record(key, handshake, rx, tx, n) ==
    SubSeq(<<key, <<"p">>, <<"e">>, <<"i">>, handshake, rx, tx, <<"o", "f", "f">>, <<"x">>>>,
           1, n)

\* The handshake epoch and byte counters of the lines modelled.
Counters ==
    {<<Zero, Zero, Zero>>, <<<<"5">>, Zero, Zero>>, <<Zero, <<"7">>, Zero>>,
     <<Zero, Zero, <<"9">>>>, <<<<"1", "5">>, <<"7">>, <<"9">>>>}

\* The lines after the first: for the peer's key every number of fields and
\* every choice of counters, and a complete line of another peer.
Records ==
    {Record(PeerKey(1), c[1], c[2], c[3], n) : c \in Counters, n \in 5..9}
    \cup {Record(PeerKey(2), <<"5">>, <<"7">>, <<"9">>, 8)}

\* The first line: the interface's (private key, public key, port, fwmark),
\* or a line that reads like a complete line of the peer.
Headers ==
    {<<<<"S">>, <<"P">>, <<"5", "1">>, <<"o", "f", "f">>>>,
     Record(PeerKey(1), <<"5">>, <<"7">>, <<"9">>, 8)}

RECURSIVE SeqsUpTo(_, _)
SeqsUpTo(S, n) ==
    IF n = 0 THEN {<<>>}
    ELSE SeqsUpTo(S, n - 1) \cup {Append(q, x) : q \in SeqsUpTo(S, n - 1), x \in S}

\* What `wg show wg0 dump` can print.
Outputs == {<<>>} \cup {<<h>> \o r : h \in Headers, r \in SeqsUpTo(Records, MaxRecords)}

\* wg0.conf holds one complete block, of peer "a" with the key K1.
InitStatus ==
    /\ InitPolicy({<<>>}, EnvLimits, {<<>>})
    /\ wg_conf_exists = TRUE
    /\ script_exists = TRUE
    /\ peers = <<>>
    /\ conf_files = {}
    /\ created_by = <<>>
    /\ sess = [u \in Users |-> EmptySess]
    /\ inflight = {}
    /\ last = NoRequest
    /\ wg_conf_blocks = <<"ok">>
    /\ status = NoStatus
    /\ wg_conf_names = << <<"a">> >>
    /\ wg_dump \in Outputs
    /\ listing = NotListed
    /\ backup = NoBackup

NextStatus ==
    \/ ListClientsBegin
    \/ ClientStatus

SpecStatus == InitStatus /\ [][NextStatus]_vars

\* The lines of the output read for entry number n, after the first line.
LinesRead(n) == RecordLines(listing.queries[n].output)

\* C21: a peer whose public key is not the first field of any line after
\* the first of the output is listed as not connected, with no handshake
\* and no transfer.
C21_AbsentKeyNotConnected ==
    \A n \in 1..Len(listing.clients) :
        (\A i \in 1..Len(LinesRead(n)) : LinesRead(n)[i][1] # listing.clients[n].public_key)
            => listing.clients[n].status = NotConnected

\* A peer was listed from a successful query whose output has lines of
\* another peer only.
C21_OtherPeerOnly ==
    /\ listing.phase = "done"
    /\ Len(listing.clients) = 1
    /\ listing.queries[1].returncode = 0
    /\ LinesRead(1) # <<>>
    /\ \A i \in 1..Len(LinesRead(1)) : LinesRead(1)[i][1] = PeerKey(2)
    /\ listing.clients[1].status = NotConnected

\* The first line of 8 fields with the peer's key among the lines read for
\* entry n, if there is one.
WellFormedRecords(n) ==
    {i \in 1..Len(LinesRead(n)) :
        Len(LinesRead(n)[i]) = 8 /\ LinesRead(n)[i][1] = listing.clients[n].public_key}

C29_OtherLengthsSkipped ==
    \A n \in 1..Len(listing.clients) :
        WellFormedRecords(n) = {} => ~listing.clients[n].status.connected

-----------------------------------------------------------------------------
(* Listing the peers while the daemon goes on: list_clients *)

\* How many peer blocks wg0.conf has at most while peers are listed.
MaxPeers == 2

\* The names of the blocks.
PeerNames == {<<"a">>, <<"b">>}

\* The names a text of n blocks can have, block by block.
RECURSIVE NamesOf(_)
NamesOf(n) ==
    IF n = 0 THEN {<<>>}
    ELSE {Append(q, x) : q \in NamesOf(n - 1), x \in PeerNames}

\* The line the daemon prints for the peer of block b.
LiveRecord(b, handshake) == Record(PeerKey(b), handshake, <<"7">>, <<"9">>, 8)

\* What the daemon prints for the peers b..MaxPeers: a peer it does not
\* know has no line, the others have one with the latest handshake.
RECURSIVE LiveRecords(_)
LiveRecords(b) ==
    IF b > MaxPeers THEN {<<>>}
    ELSE LiveRecords(b + 1)
         \cup {<<LiveRecord(b, h)>> \o r : h \in {Zero, <<"5">>}, r \in LiveRecords(b + 1)}

InterfaceLine == <<<<"S">>, <<"P">>, <<"5", "1">>, <<"o", "f", "f">>>>

InitList ==
    /\ InitPolicy({<<>>}, EnvLimits, {<<>>})
    /\ wg_conf_exists \in BOOLEAN
    /\ script_exists = TRUE
    /\ peers = <<>>
    /\ conf_files = {}
    /\ created_by = <<>>
    /\ sess = [u \in Users |-> EmptySess]
    /\ inflight = {}
    /\ last = NoRequest
    /\ wg_conf_blocks \in IF wg_conf_exists THEN SeqsUpTo({"ok", "no_key"}, MaxPeers)
                          ELSE {<<>>}
    /\ status = NoStatus
    /\ wg_conf_names \in NamesOf(Len(wg_conf_blocks))
    /\ wg_dump \in {<<InterfaceLine>> \o r : r \in LiveRecords(1)}
    /\ listing = NotListed
    /\ backup = NoBackup

\* The daemon sees a handshake of the peer in line i: its latest handshake
\* moves on.
PeerHandshake(i) ==
    /\ i \in 2..Len(wg_dump)
    /\ wg_dump[i][5] \in {Zero, <<"5">>}
    /\ wg_dump' = [wg_dump EXCEPT ![i][5] = IF @ = Zero THEN <<"5">> ELSE <<"6">>]
    /\ UNCHANGED <<policyVars, wg_conf_exists, script_exists, peers, conf_files, runVars,
                   parseVars, wg_conf_names, listing, backup>>

NextList ==
    \/ ListClientsBegin
    \/ ClientStatus
    \/ \E i \in 2..(MaxPeers + 1) : PeerHandshake(i)

SpecList == InitList /\ [][NextList]_vars

\* C23: when the status query times out or exits nonzero the peer is listed
\* as not connected with no handshake or transfer data, and a listing whose
\* queries all failed still returns every peer of a well-formed wg0.conf.
C23_FailedQueryNotConnected ==
    /\ \A n \in 1..Len(listing.clients) :
          listing.queries[n].returncode # 0 => listing.clients[n].status = NotConnected
    /\ (/\ listing.phase = "done"
        /\ listing.readable
        /\ \A b \in 1..Len(wg_conf_blocks) : wg_conf_blocks[b] = "ok"
        /\ \A n \in 1..Len(listing.queries) : listing.queries[n].returncode # 0)
       => /\ ~listing.raised
          /\ Len(listing.clients) = Len(wg_conf_blocks)
          /\ \A b \in 1..Len(wg_conf_blocks) :
                /\ listing.clients[b].name = wg_conf_names[b]
                /\ listing.clients[b].public_key = PeerKey(b)

\* Two peers were listed, one query timed out and the other exited nonzero
\* after printing a line for its peer.
C23_BothQueriesFailed ==
    /\ listing.phase = "done"
    /\ Len(listing.clients) = 2
    /\ listing.queries[1].returncode = -1
    /\ listing.queries[2].returncode = 1
    /\ \E i \in 1..Len(LinesRead(2)) : LinesRead(2)[i][1] = listing.clients[2].public_key
    /\ \A n \in 1..2 : listing.clients[n].status = NotConnected

\* C24: list_clients never returns two entries with the same name.
C24_NamesUnique ==
    listing.phase = "done" =>
        \A i, j \in 1..Len(listing.clients) :
            i # j => listing.clients[i].name # listing.clients[j].name

\* C25: a wg0.conf that is missing or cannot be read is signalled to the
\* caller: the call raises, or returns something else than the empty list
\* of a readable text without peers.
C25_UnreadableSignalled ==
    (listing.phase = "done" /\ ~listing.readable) =>
        listing.raised \/ listing.clients # <<>>

\* C30: the statuses of one result are those of one output of the status
\* query: when every query succeeded, one of the outputs read gives the
\* status of every entry, whatever the daemon did meanwhile.
C30_OneSnapshot ==
    (/\ listing.phase = "done"
     /\ listing.clients # <<>>
     /\ \A n \in 1..Len(listing.queries) : listing.queries[n].returncode = 0) =>
        \E n \in 1..Len(listing.queries) :
            \A m \in 1..Len(listing.clients) :
                listing.clients[m].status =
                    get_client_status(listing.clients[m].public_key,
                                      listing.queries[n].returncode,
                                      listing.queries[n].output)

-----------------------------------------------------------------------------
(* Adding and removing with wg0.conf kept block by block *)

\* A name of 16 characters, the first of them not allowed.
LongName == <<"!", "c", "c", "c", "c", "c", "c", "c", "c", "c", "c", "c", "c", "c", "c", "c">>

\* The names add_client is called with.
RoundNames == {<<>>, <<"a">>, <<"b">>, LongName}

\* wg0.conf holds no block, or one block named "b" of any shape, whose
\* profile file may or may not be there.
InitRound ==
    /\ InitPolicy({<<>>}, EnvLimits, {<<>>})
    /\ wg_conf_exists = TRUE
    /\ script_exists = TRUE
    /\ wg_conf_blocks \in SeqsUpTo(Shapes, 1)
    /\ wg_conf_names = [b \in 1..Len(wg_conf_blocks) |-> <<"b">>]
    /\ peers = NamesListed(wg_conf_blocks, wg_conf_names)
    /\ conf_files \in SUBSET {wg_conf_names[b] : b \in 1..Len(wg_conf_blocks)}
    /\ created_by = <<>>
    /\ sess = [u \in Users |-> EmptySess]
    /\ inflight = {}
    /\ last = NoRequest
    /\ status = NoStatus
    /\ wg_dump = <<>>
    /\ listing = NotListed
    /\ backup = NoBackup

NextRound ==
    \/ /\ Len(wg_conf_blocks) < MaxPeers
       /\ \E client_name \in RoundNames : AddClientCall(OWNER_ID, client_name, Str8888)
    \/ AddClientReturnConf
    \/ \E client_name \in {sanitize_client_name(n) : n \in RoundNames \ {<<>>}} :
          CallbackConfirmRemove(OWNER_ID, client_name)
    \/ RemoveClientReturnConf

SpecRound == InitRound /\ [][NextRound]_vars

\* C27: after a successful add_client of a name that no block of wg0.conf
\* had before, the name is listed exactly once, and after a successful
\* remove_client it is not listed, whatever wg0.conf held before.
C27_RoundTrip ==
    /\ (/\ last.op = "add" /\ last.phase = "done" /\ last.result = "Created"
        /\ Count(last.name, wg_conf_names) = 1) =>
          Count(last.name, NamesListed(wg_conf_blocks, wg_conf_names)) = 1
    /\ (last.op = "remove" /\ last.phase = "done" /\ last.result = "Removed") =>
          ~InList(last.name, NamesListed(wg_conf_blocks, wg_conf_names))

\* C28: every name the tool is started with after --addclient is not empty,
\* at most 15 characters long and made of the allowed characters only.
C28_ToolNameSanitized ==
    \A c \in inflight :
        c.op = "add" =>
            /\ c.name # <<>>
            /\ Len(c.name) <= NameLimit
            /\ \A i \in 1..Len(c.name) : c.name[i] \in AllowedNameChars

\* The tool runs for a raw name of 16 characters that begins with "!".
C28_LongNameCut ==
    /\ last.op = "add"
    /\ last.phase = "executing"
    /\ last.raw = LongName
    /\ \E c \in inflight : c.op = "add" /\ Len(c.name) = NameLimit /\ c.name[1] = "_"

-----------------------------------------------------------------------------
(* Backing up: backup_configs *)

\* wg0.conf holds up to MaxPeers complete blocks, and any of their profile
\* files are there.
InitBackup ==
    /\ InitPolicy({<<>>}, EnvLimits, {<<>>})
    /\ wg_conf_exists = TRUE
    /\ script_exists = TRUE
    /\ wg_conf_blocks \in SeqsUpTo({"ok"}, MaxPeers)
    /\ wg_conf_names \in NamesOf(Len(wg_conf_blocks))
    /\ peers = NamesListed(wg_conf_blocks, wg_conf_names)
    /\ conf_files \in SUBSET PeerNames
    /\ created_by = <<>>
    /\ sess = [u \in Users |-> EmptySess]
    /\ inflight = {}
    /\ last = NoRequest
    /\ status = NoStatus
    /\ wg_dump = <<>>
    /\ listing = NotListed
    /\ backup = NoBackup

\* A profile file is moved out of the search paths of find_config_file.
ProfileLost(name) ==
    /\ name \in conf_files
    /\ conf_files' = conf_files \ {name}
    /\ UNCHANGED <<policyVars, wg_conf_exists, script_exists, peers, runVars, parseVars,
                   liveVars>>

NextBackup ==
    \/ BackupConfigs
    \/ \E name \in PeerNames : ProfileLost(name)

SpecBackup == InitBackup /\ [][NextBackup]_vars

\* The listed peers backup_configs found no profile file for.
Omitted == {backup.clients[n] : n \in 1..Len(backup.clients)} \ backup.located

\* C26: a backup that succeeds holds wg0.conf and one entry clients/NAME.conf
\* for every listed peer whose profile file is located, and its result
\* reports the peers that were omitted, by name or by their number.
C26_OmittedPeersReported ==
    (backup.done /\ backup.success) =>
        /\ backup.archive = <<ServerArcname>> \o ClientArcnames(backup.clients, backup.located)
        /\ Omitted # {} =>
              \E i \in 1..Len(backup.message) :
                  backup.message[i] \in Omitted \cup {<<KeyDigits[Cardinality(Omitted)]>>}

-----------------------------------------------------------------------------
(* The bot with its command-driven and menu-driven add-client dialogs *)

Commands == {"add_client", "add_user", "skip", "cancel"}
DispatchTexts == {<<"a">>, Str8888}

InitDispatch ==
    /\ InitPolicy({<<>>}, EnvLimits, {<<>>})
    /\ wg_conf_exists = TRUE
    /\ script_exists = TRUE
    /\ peers = <<>>
    /\ conf_files = {}
    /\ created_by = <<>>
    /\ InitRun

NextDispatch ==
    \/ \E u \in Users :
          \/ \E command \in Commands : CommandUpdate(u, command)
          \/ \E text \in DispatchTexts : TextUpdate(u, text)
          \/ CallbackClientAdd(u)
          \/ CallbackUseDefaultDns(u)
          \/ CallbackCancel(u, "menu_clients")
    \/ AddClientReturn

SpecDispatch == InitDispatch /\ [][NextDispatch]_vars

\* C31: a text with a valid unused name, sent by a user whose /add_client
\* conversation waits for the client name, is handled by add_client_name:
\* the conversation goes on to WAITING_DNS_SERVERS.
C31_NameTextAdvances ==
    [][\A u \in Users, text \in ValidNames :
          (/\ conversations.add_client_conv[u] = "WAITING_CLIENT_NAME"
           /\ ~InList(text, ListClientNames)
           /\ TextUpdate(u, text))
          => conversations'.add_client_conv[u] = "WAITING_DNS_SERVERS"]_vars

\* The buttons that leave a dialog.
CancelButtons == {"menu_clients", "menu_users", "limits_user"}

\* C32: when a user has pressed Cancel or Back in the add-client, add-user
\* or set-limit dialog, that user's menu_state is cleared.
C32_CancelClearsMenuState ==
    last.op \in CancelButtons => sess[last.arg].menu_state = "none"

\* C32: a text that follows Cancel is ignored: it starts no add_client call.
C32_TextAfterCancelIgnored ==
    [][\A u \in Users, text \in DispatchTexts :
          (last.op \in CancelButtons /\ last.arg = u /\ TextUpdate(u, text))
          => (inflight' = inflight /\ sess' = sess)]_vars

-----------------------------------------------------------------------------
(* The user-management dialogs: every update a user can send that reaches   *)
(* a call of add_authorized_user or set_user_limits.                        *)

\* The texts users send: a user id, a word for no limit, a text that is
\* neither.
UserTexts == {<<"3">>, Unlimited, <<"x">>}

\* The updates of user u in the user-management and limit dialogs.
UserUpdate(u) ==
    \/ NoEffectUpdate(u)
    \/ CallbackUsersAdd(u)
    \/ \E text \in UserTexts : TextUpdate(u, text)
    \/ \E t \in LimitTargets :
          \/ CallbackSetMaxClients(u, t)
          \/ CallbackSetRateLimit(u, t)
          \/ CallbackToggleBackup(u, t)
          \/ CallbackToggleStats(u, t)
          \/ CallbackToggleClients(u, t)
          \/ CallbackResetLimits(u, t)
    \/ \E command \in {"add_user", "cancel"} : CommandUpdate(u, command)
    \/ \E callback_data \in {"menu_users", "limits_user"} : CallbackCancel(u, callback_data)

InitUsers ==
    /\ InitPolicy(EnvAuthorizedUsers, EnvLimits, StoredUserLimits)
    /\ wg_conf_exists = TRUE
    /\ script_exists = TRUE
    /\ peers = <<>>
    /\ created_by = <<>>
    /\ conf_files = {}
    /\ InitRun

NextUsers == \E u \in Users : UserUpdate(u)

SpecUsers == InitUsers /\ [][NextUsers]_vars

\* C33: no update of a user other than the owner changes authorized_users
\* or user_limits (user_usernames is written only by add_authorized_user when
\* it appends to authorized_users).
C33_OnlyOwnerChangesPolicy ==
    [][\A u \in Users \ {OWNER_ID} :
          UserUpdate(u) => UNCHANGED <<authorized_users, user_limits, config_file>>]_vars

\* An operator who is not the owner has sent /add_user and was refused, after
\* the owner had authorized user 3.
C33_OperatorRefused ==
    /\ last.op = "add_user_start" /\ last.arg = 2 /\ last.result = "END"
    /\ is_authorized(2)
    /\ is_authorized(3)

-----------------------------------------------------------------------------
(* Access: the updates of every user that can reach the tool, while the     *)
(* authorized list changes under the dialogs.                               *)

InitAccess ==
    /\ InitPolicy(EnvAuthorizedUsers, EnvLimits, {<<>>})
    /\ wg_conf_exists \in BOOLEAN
    /\ script_exists = TRUE
    /\ peers = <<>>
    /\ conf_files = {}
    /\ created_by = <<>>
    /\ InitRun

NextAccess ==
    \/ \E u \in Users :
          \/ \E command \in {"add_client", "skip"} : CommandUpdate(u, command)
          \/ \E text \in DispatchTexts : TextUpdate(u, text)
          \/ CallbackClientAdd(u)
          \/ CallbackUseDefaultDns(u)
          \/ CallbackConfirmRemove(u, <<"a">>)
          \/ CmdInstall(u)
    \/ AddClientReturn
    \/ RemoveClientReturn
    \/ InstallReturn
    \/ ~Blocked /\ RemoveAuthorizedUser(2)

SpecAccess == InitAccess /\ [][NextAccess]_vars

\* C34: every call of the manager that has started the tool (add, remove,
\* install) was made for an update of a user who is in authorized_users.
C34_ToolOnlyForAuthorized ==
    \A c \in inflight : InList(c.user, authorized_users)

\* User 2 was removed from authorized_users in the middle of the add-client
\* dialog, has then sent /add_client and was refused; no call was started.
C34_RemovedMidDialog ==
    /\ ~InList(2, authorized_users)
    /\ sess[2].menu_state = "waiting_dns_servers"
    /\ last.op = "add_client_start" /\ last.arg = 2 /\ last.result = "END"
    /\ inflight = {}

-----------------------------------------------------------------------------
(* Restart: the process ends and Config() runs again with the same          *)
(* environment and the file the last run left.                              *)

\* _load_config: the ids of AUTHORIZED_USERS after the owner's, as they are
\* listed; of the file, only user_limits (and user_usernames) is kept.
load_config(additional, file) ==
    [au |-> <<OWNER_ID>> \o additional,
     ul |-> IF file.exists THEN file.user_limits ELSE <<>>,
     file |-> IF file.exists THEN file
              ELSE [exists |-> TRUE, authorized_users |-> <<OWNER_ID>> \o additional,
                    user_limits |-> <<>>]]

Restart ==
    /\ ~Blocked
    /\ LET c == load_config(environ.AUTHORIZED_USERS, config_file)
       IN  /\ authorized_users' = c.au
           /\ user_limits' = c.ul
           /\ config_file' = c.file
    /\ sess' = [u \in Users |-> EmptySess]
    /\ conversations' = NoConversations
    /\ last' = [NoRequest EXCEPT !.op = "restart", !.phase = "done"]
    /\ UNCHANGED <<limits, environ, wgVars, inflight, created_by>>

\* config.set_user_limits(user_id, l)
SetUserLimits(user_id, l) ==
    /\ Commit(set_user_limits(Cfg, user_id, l))
    /\ last' = StoreCall("set_user_limits", user_id, "None")
    /\ UNCHANGED <<wgVars, sess, inflight, created_by>>

\* AUTHORIZED_USERS unset, "2", "2,2" and "3,2,3".
EnvAuthorizedUsersReload == {<<>>, <<2>>, <<2, 2>>, <<3, 2, 3>>}

InitReload ==
    /\ InitPolicy(EnvAuthorizedUsersReload, EnvLimits, StoredUserLimits)
    /\ wg_conf_exists = TRUE
    /\ script_exists = TRUE
    /\ peers = <<>>
    /\ conf_files = {}
    /\ created_by = <<>>
    /\ InitRun

NextReload ==
    \/ \E user_id \in Users :
          \/ AddAuthorizedUser(user_id)
          \/ RemoveAuthorizedUser(user_id)
          \/ SetUserLimits(user_id, Limits(1, 10, FALSE, TRUE, TRUE))
    \/ Restart

SpecReload == InitReload /\ [][NextReload]_vars

\* The set of the ids in a list.
IdsOf(l) == {l[i] : i \in 1..Len(l)}

\* C35: when remove_authorized_user(u) has returned True for a user u other
\* than the owner, is_authorized(u) is false and user_limits has no record
\* of u.
C35_RemovedIsGone ==
    (last.op = "remove_authorized_user" /\ last.result = "True" /\ last.arg # OWNER_ID)
    => (~is_authorized(last.arg) /\ last.arg \notin DOMAIN user_limits)

\* C36: a restart with the same environment brings back the authorized_users
\* set and the user_limits records the store had before it.
C36_RestartKeepsStore ==
    [][Restart => (/\ IdsOf(authorized_users') = IdsOf(authorized_users)
                   /\ user_limits' = user_limits)]_vars

-----------------------------------------------------------------------------
(* The two DNS validations: the dialog's and add_client's *)

\* C37: add_client never refuses for its DNS validation a list the dialog
\* has accepted with validate_dns_servers (every add_client call of Spec
\* comes from the dialog).
C37_DialogDnsPassesManager ==
    last.op = "add" => last.check # "InvalidDns"

-----------------------------------------------------------------------------
(* Two sessions of the add-client dialog with one name *)

-----------------------------------------------------------------------------
(* Permissions: operators whose flags the owner has switched off *)

\* User 2 has a stored record with can_backup and can_manage_clients off.
StoredUserLimitsOff == {Put(<<>>, 2, Limits(-1, 10, FALSE, TRUE, FALSE))}

\* wg0.conf holds the peer "a", whose profile a.conf exists.
InitPermissions ==
    /\ InitPolicy(EnvAuthorizedUsers, EnvLimits, StoredUserLimitsOff)
    /\ wg_conf_exists = TRUE
    /\ script_exists = TRUE
    /\ peers = <<StoredPeer>>
    /\ conf_files = {StoredPeer}
    /\ created_by = Put(<<>>, StoredPeer, 2)
    /\ InitRun

NextPermissions ==
    \/ \E u \in Users :
          \/ CallbackBackupCreate(u)
          \/ CallbackConfirmRemove(u, StoredPeer)
          \/ CallbackClientAdd(u)
          \/ TextUpdate(u, <<"b">>)
          \/ CallbackUseDefaultDns(u)
          \/ CallbackToggleBackup(u, 2)
          \/ CallbackToggleClients(u, 2)
    \/ BackupReturn
    \/ RemoveClientReturn
    \/ AddClientReturn

SpecPermissions == InitPermissions /\ [][NextPermissions]_vars

\* C39: backup_configs runs only for an operator whose effective can_backup
\* is true, and add_client and remove_client start the tool only for an
\* operator whose effective can_manage_clients is true.
C39_FlagsEnforced ==
    \A c \in inflight :
        /\ c.op = "backup" => Truthy(can_user_perform_action(c.user, "backup"))
        /\ c.op \in {"add", "remove"} =>
              Truthy(can_user_perform_action(c.user, "manage_clients"))

====
